---------------------------- MODULE Spec2Model ----------------------------
(***************************************************************************)
(* A model of the Itanium demangler of ilobilo/demangler: the entry points *)
(* of source/cxa_demangle.cpp and ItaniumDemangle.cpp, and the parser and  *)
(* printer of ItaniumDemangle.h.                                           *)
(*                                                                         *)
(* Bytes are one-character strings, byte strings are TLA+ strings.  The    *)
(* AST lives in an arena (a sequence of node records); a Node* is an index *)
(* into the arena and the null pointer is 0.                               *)
(***************************************************************************)
EXTENDS Integers, Sequences, FiniteSets, TLC

VARIABLES
    todo,      \* the calls the client program still has to make
    log,       \* one record per completed call: arguments and results
    Context,   \* ItaniumPartialDemangler::Context, the persistent parser
    RootNode,  \* ItaniumPartialDemangler::RootNode
    Printing,  \* the nodes of Context's AST whose mutable Printing flag is set
    Status,    \* the int the caller's Status pointer points at
    NOut,      \* the size_t the caller's N pointer points at
    Alloc      \* a BumpPointerAllocator, as DefaultAllocator::Alloc is one

vars == <<todo, log, Context, RootNode, Printing, Status, NOut, Alloc>>

(***************************************************************************)
(* Bytes                                                                   *)
(***************************************************************************)
\* The byte 0.  It cannot be part of a mangled name (std::strlen stops at it).
NUL == "\f"

NullPtr == 0

Digits == {"0", "1", "2", "3", "4", "5", "6", "7", "8", "9"}

UpperLetters ==
    {"A", "B", "C", "D", "E", "F", "G", "H", "I", "J", "K", "L", "M",
     "N", "O", "P", "Q", "R", "S", "T", "U", "V", "W", "X", "Y", "Z"}

LowerLetters ==
    {"a", "b", "c", "d", "e", "f", "g", "h", "i", "j", "k", "l", "m",
     "n", "o", "p", "q", "r", "s", "t", "u", "v", "w", "x", "y", "z"}

\* The printable ASCII bytes 32..95 and 97..126, in code order.
AsciiLow ==
    " !\"#$%&'()*+,-./0123456789:;<=>?@ABCDEFGHIJKLMNOPQRSTUVWXYZ[\\]^_"

AsciiHigh == "abcdefghijklmnopqrstuvwxyz{|}~"

\* The character code of a byte.
OrdTable ==
    [c \in {SubSeq(AsciiLow, i, i) : i \in 1..Len(AsciiLow)}
           \cup {SubSeq(AsciiHigh, i, i) : i \in 1..Len(AsciiHigh)} \cup {NUL} |->
        IF c = NUL THEN 0
        ELSE IF \E i \in 1..Len(AsciiLow) : SubSeq(AsciiLow, i, i) = c
             THEN 31 + (CHOOSE i \in 1..Len(AsciiLow) : SubSeq(AsciiLow, i, i) = c)
             ELSE 96 + (CHOOSE i \in 1..Len(AsciiHigh) : SubSeq(AsciiHigh, i, i) = c)]

Ord(c) == OrdTable[c]

\* std::isdigit
isdigit(c) == c \in Digits

\* c - '0' for a decimal digit c
DigitVal(c) == Ord(c) - 48

CharAt(s, i) == SubSeq(s, i, i)

\* StringView::startsWith
startsWith(s, pre) == Len(s) >= Len(pre) /\ SubSeq(s, 1, Len(pre)) = pre

\* StringView::dropFront
dropFront(s, k) == IF k >= Len(s) THEN "" ELSE SubSeq(s, k + 1, Len(s))

(***************************************************************************)
(* AST nodes                                                               *)
(***************************************************************************)
\* The sentinel std::numeric_limits<unsigned>::max() of CurrentPackIndex and
\* CurrentPackMax, "no pack is being expanded".  It is only compared with
\* pack sizes and pack indexes; the largest integer TLC holds stands for it.
UIntMax == 2147483647

\* (size_t)-1, "not parsing lambda parameters"
SizeMax == -1

QualNone == 0
QualConst == 1
QualVolatile == 2
QualRestrict == 4

FrefQualNone == 0
FrefQualLValue == 1
FrefQualRValue == 2

\* Node::Prec, in declaration order
PrecNames ==
    <<"Primary", "Postfix", "Unary", "Cast", "PtrMem", "Multiplicative",
      "Additive", "Shift", "Spaceship", "Relational", "Equality", "And",
      "Xor", "Ior", "AndIf", "OrIf", "Conditional", "Assign", "Comma",
      "Default">>

\* unsigned(Prec)
PrecVal(name) == (CHOOSE i \in 1..Len(PrecNames) : PrecNames[i] = name) - 1

\* A node with the constructor defaults of Node: precedence Primary and the
\* three caches No.  K is the kind tag; S a string payload; A, B, C child
\* pointers; L, L2 node arrays; N a number; F a flag.
Node(K) ==
    [K |-> K, S |-> "", Value |-> "", A |-> NullPtr, B |-> NullPtr, C |-> NullPtr,
     L |-> <<>>, L2 |-> <<>>, N |-> 0, F |-> FALSE,
     CVQuals |-> QualNone, RefQual |-> FrefQualNone,
     Prec |-> "Primary",
     RHSComponentCache |-> "No", ArrayCache |-> "No", FunctionCache |-> "No"]

NameType(Name) == [Node("NameType") EXCEPT !.S = Name]

(***************************************************************************)
(* The parser: AbstractManglingParser                                      *)
(***************************************************************************)
\* The parser as constructed by AbstractManglingParser(First_, Last_).
\* First and Last are offsets into M: First counts the bytes consumed so far
\* and Last is where the input ends, Len(M) unless a scoped override narrows
\* it.  overrun records that the cursor has been moved past Last.  nulls records
\* that some sub-parser has returned a null node; unmodelled records that
\* the parse has entered a production this model does not describe; top,
\* topFrom, topTo and topOk record which top-level production parse() has
\* chosen, the offset it started at, the offset it returned at and whether
\* it returned a node.  trace records, in the order they happen, the pushes
\* and pops of the substitution table and the lookups of parseSubstitution;
\* root is the node parse() returned.
NewParser(M) ==
    [M |-> M, First |-> 0, Last |-> Len(M), overrun |-> FALSE,
     Names |-> <<>>, Subs |-> <<>>,
     TemplateParams |-> <<>>, OuterTemplateParams |-> <<>>,
     ForwardTemplateRefs |-> <<>>,
     TryToParseTemplateArgs |-> TRUE,
     PermitForwardTemplateReferences |-> FALSE,
     ParsingLambdaParamsAtLevel |-> SizeMax,
     NumSyntheticTemplateParameters |-> <<0, 0, 0>>,
     Arena |-> <<>>,
     nulls |-> FALSE, unmodelled |-> FALSE,
     top |-> "none", topFrom |-> 0, topTo |-> 0, topOk |-> FALSE,
     trace |-> <<>>, root |-> NullPtr]

\* reset as it would be if it forgot Names.clear(), Subs.clear(),
\* TemplateParams.clear() and ASTAllocator.reset()
reset_keepsTables(p, M) ==
    [p EXCEPT !.M = M, !.First = 0, !.Last = Len(M), !.overrun = FALSE,
              !.ParsingLambdaParamsAtLevel = SizeMax,
              !.TryToParseTemplateArgs = TRUE,
              !.PermitForwardTemplateReferences = FALSE,
              !.NumSyntheticTemplateParameters = <<0, 0, 0>>,
              !.nulls = FALSE, !.unmodelled = FALSE,
              !.top = "none", !.topFrom = 0, !.topTo = 0,
              !.topOk = FALSE, !.trace = <<>>, !.root = NullPtr]

\* AbstractManglingParser::reset together with BumpPointerAllocator::reset.
\* OuterTemplateParams and ForwardTemplateRefs are not touched.
reset(p, M) ==
    [p EXCEPT !.M = M, !.First = 0, !.Last = Len(M), !.overrun = FALSE,
              !.Names = <<>>, !.Subs = <<>>, !.TemplateParams = <<>>,
              !.ParsingLambdaParamsAtLevel = SizeMax,
              !.TryToParseTemplateArgs = TRUE,
              !.PermitForwardTemplateReferences = FALSE,
              !.NumSyntheticTemplateParameters = <<0, 0, 0>>,
              !.Arena = <<>>,
              !.nulls = FALSE, !.unmodelled = FALSE,
              !.top = "none", !.topFrom = 0, !.topTo = 0,
              !.topOk = FALSE, !.trace = <<>>, !.root = NullPtr]

\* What a sub-parser returns: the node (NullPtr on failure) and the parser.
Ret(n, p) == [n |-> n, p |-> p]

\* return nullptr;
Fail(p) == [n |-> NullPtr, p |-> [p EXCEPT !.nulls = TRUE]]

\* A production outside the modelled fragment.
Unmodelled(p) == [n |-> NullPtr, p |-> [p EXCEPT !.nulls = TRUE, !.unmodelled = TRUE]]

\* parse() hands the input to a top-level production at the current offset
TopBegin(p, production) == [p EXCEPT !.top = production, !.topFrom = p.First]

\* the top-level production has returned r
TopEnd(r) == [r EXCEPT !.p.topTo = r.p.First, !.p.topOk = r.n # NullPtr]

\* make<T>(...): allocate the node in the arena and return its address.
make(p, node) ==
    [n |-> Len(p.Arena) + 1, p |-> [p EXCEPT !.Arena = Append(@, node)]]

numLeft(p) == p.Last - p.First

look(p, Lookahead) ==
    IF numLeft(p) <= Lookahead THEN NUL
    ELSE CharAt(p.M, p.First + Lookahead + 1)

\* The unread input, StringView(First, Last)
Rest(p) == IF p.First >= p.Last THEN "" ELSE SubSeq(p.M, p.First + 1, p.Last)

\* ++First, First += 2, First += Length
Advance(p, k) == [p EXCEPT !.First = @ + k, !.overrun = @ \/ p.First + k > p.Last]

\* consumeIf(StringView) and consumeIf(char): whether it matched, and the parser
consumeIfOk(p, S) == startsWith(Rest(p), S)

consumeIf(p, S) == IF consumeIfOk(p, S) THEN Advance(p, Len(S)) ELSE p

\* One more event in the trace: what happened (push, pop, subst for a
\* lookup, nested and type for the return of parseNestedName and of
\* parseType), the node pushed, popped or returned, the index in the table
\* (for type, the size of the table when parseType was entered), the size
\* of the table when the event is recorded, and the bytes a lookup has
\* read after its S (for type, the one or two bytes that select the case)
Traced(p, e, n, Index, id) ==
    [p EXCEPT !.trace = Append(@, [e |-> e, n |-> n, Index |-> Index,
                                   Size |-> Len(p.Subs), id |-> id])]

\* One more event in the trace for a <template-param> that has been
\* decoded: the node returned, the level and the index, and what the
\* parser p0 held when the table was consulted
TracedParam(p, p0, n, Level, Index) ==
    [p EXCEPT !.trace = Append(@, [e |-> "param", n |-> n, Index |-> Index,
                                   Size |-> Len(p.Subs), id |-> "", Level |-> Level,
                                   Permit |-> p0.PermitForwardTemplateReferences,
                                   Lambda |-> p0.ParsingLambdaParamsAtLevel,
                                   TemplateParams |-> p0.TemplateParams,
                                   OuterTemplateParams |-> p0.OuterTemplateParams])]

\* One more event in the trace for a return of parseOperatorName or of the
\* C-cast case of parseExpr: the node returned and the two speculative
\* flags of the parser p0 that entered and of the parser p that returns
TracedFlags(p, p0, e, n) ==
    [p EXCEPT !.trace = Append(@, [e |-> e, n |-> n, Index |-> 0,
                                   Size |-> Len(p.Subs), id |-> "",
                                   Try0 |-> p0.TryToParseTemplateArgs,
                                   Permit0 |-> p0.PermitForwardTemplateReferences,
                                   Try |-> p.TryToParseTemplateArgs,
                                   Permit |-> p.PermitForwardTemplateReferences])]

\* Names.push_back, Subs.push_back
PushName(p, n) == [p EXCEPT !.Names = Append(@, n)]

PushSub(p, n) == [Traced(p, "push", n, Len(p.Subs), "") EXCEPT !.Subs = Append(@, n)]

\* Subs.pop_back()
PopSub(p) ==
    [Traced(p, "pop", p.Subs[Len(p.Subs)], Len(p.Subs) - 1, "")
        EXCEPT !.Subs = SubSeq(@, 1, Len(@) - 1)]

\* popTrailingNodeArray: the node array and the parser with Names cut back
TrailingNodeArray(p, FromPosition) ==
    SubSeq(p.Names, FromPosition + 1, Len(p.Names))

\* popTrailingNodeArray as it would be without Names.dropBack(FromPosition)
popTrailingNodeArray_keepsNames(p, FromPosition) == p

popTrailingNodeArray(p, FromPosition) ==
    [p EXCEPT !.Names = SubSeq(@, 1, FromPosition)]

(***************************************************************************)
(* size_t.  The parser computes lengths, indexes and sequence ids in       *)
(* size_t, 64 bits wide, where a product or a sum wraps.  A size_t is four  *)
(* limbs of 16 bits, the least significant first.                          *)
(***************************************************************************)
\* The values of one limb
SizeLimb == 65536

\* What stands for every size_t of 2^30 or more when it is compared with a
\* size or a count of bytes left, all of which are smaller
SizeHuge == 2147483647

\* The size_t of a small number
SizeT(n) == <<n % SizeLimb, n \div SizeLimb, 0, 0>>

\* x * m + a in size_t
SizeMulAdd(x, m, a) ==
    LET t0 == x[1] * m + a
        t1 == x[2] * m + t0 \div SizeLimb
        t2 == x[3] * m + t1 \div SizeLimb
        t3 == x[4] * m + t2 \div SizeLimb
    IN <<t0 % SizeLimb, t1 % SizeLimb, t2 % SizeLimb, t3 % SizeLimb>>

\* ++x in size_t
SizeInc(x) == SizeMulAdd(x, 1, 1)

\* The number a size_t holds, SizeHuge from 2^30 on
SizeVal(x) ==
    IF x[4] = 0 /\ x[3] = 0 /\ x[2] < 16384 THEN x[2] * SizeLimb + x[1]
    ELSE SizeHuge

(***************************************************************************)
(* BumpPointerAllocator.  A block is named by an id: 0 is InitialBuffer,   *)
(* and the k-th successful malloc returns block k, so that a block freed    *)
(* twice, or never, can be told.  malloc is taken to succeed: where it      *)
(* fails the program terminates.  sizeof(BlockMeta) is that of a pointer   *)
(* and a size_t of 64 bits.                                                 *)
(***************************************************************************)
AllocSize == 4096

BlockMetaSize == 16

UsableAllocSize == AllocSize - BlockMetaSize

\* x + y in size_t
SizeAdd(x, y) ==
    LET t0 == x[1] + y[1]
        t1 == x[2] + y[2] + t0 \div SizeLimb
        t2 == x[3] + y[3] + t1 \div SizeLimb
        t3 == x[4] + y[4] + t2 \div SizeLimb
    IN <<t0 % SizeLimb, t1 % SizeLimb, t2 % SizeLimb, t3 % SizeLimb>>

\* x <= y in size_t
SizeLeq(x, y) ==
    \/ x[4] < y[4]
    \/ x[4] = y[4] /\ x[3] < y[3]
    \/ x[4] = y[4] /\ x[3] = y[3] /\ x[2] < y[2]
    \/ x[4] = y[4] /\ x[3] = y[3] /\ x[2] = y[2] /\ x[1] <= y[1]

\* x & ~15u: ~15u is an unsigned int, 0xFFFFFFF0, and is widened to size_t
\* with zeros above its 32 bits
AndNot15u(x) == <<x[1] - (x[1] % 16), x[2], 0, 0>>

\* BlockMeta{ Next, 0 }; Next is the rest of the list
BlockMeta(id) == [id |-> id, Current |-> SizeT(0)]

\* BumpPointerAllocator(): the list is InitialBuffer alone.  Heap, Frees and
\* Handed keep what malloc returned, what free was given and the regions
\* allocate returned since the last reset; calls and last tell the history.
BumpPointerAllocator ==
    [BlockList |-> <<BlockMeta(0)>>, Heap |-> <<>>, InitialFrees |-> 0,
     Handed |-> <<>>, calls |-> 0, last |-> "new"]

\* std::malloc(NBytes), for kind "grow" or "massive"
Malloc(A, NBytes, kind) ==
    [A EXCEPT !.Heap = Append(@, [size |-> NBytes, kind |-> kind, frees |-> 0])]

\* std::free of block id
Free(A, id) ==
    IF id = 0 THEN [A EXCEPT !.InitialFrees = @ + 1]
    ELSE [A EXCEPT !.Heap[id].frees = @ + 1]

\* The region a call returns: the block, the offset past the BlockMeta, the
\* bytes reserved and the bytes asked for
Region(id, from, len, N) == [id |-> id, from |-> from, len |-> len, N |-> N]

grow(A) ==
    LET B == Malloc(A, SizeT(AllocSize), "grow")
    IN [B EXCEPT !.BlockList = <<BlockMeta(Len(B.Heap))>> \o @]

\* The new block is linked behind the head, and the region starts right
\* after its BlockMeta
allocateMassive(A, NBytes, N) ==
    LET B == Malloc(A, SizeAdd(NBytes, SizeT(BlockMetaSize)), "massive")
        id == Len(B.Heap)
    IN [B EXCEPT !.BlockList = <<Head(@), BlockMeta(id)>> \o Tail(@),
                 !.Handed = Append(@, Region(id, SizeT(0), NBytes, N))]

allocate(A, N0) ==
    LET N == AndNot15u(SizeAdd(N0, SizeT(15)))
        Full == SizeLeq(SizeT(UsableAllocSize), SizeAdd(N, Head(A.BlockList).Current))
        Bump(B) ==
            [B EXCEPT !.BlockList[1].Current = SizeAdd(@, N),
                      !.Handed = Append(@, Region(B.BlockList[1].id,
                                                  B.BlockList[1].Current, N, N0))]
    IN IF Full /\ ~SizeLeq(N, SizeT(UsableAllocSize)) THEN allocateMassive(A, N, N0)
       ELSE IF Full THEN Bump(grow(A))
       ELSE Bump(A)

\* The loop of reset, at a list that is left to walk
RECURSIVE ResetLoop(_, _)
ResetLoop_headOnly(A, List) ==
    IF List = <<>> THEN A
    ELSE IF Head(List).id # 0 THEN Free(A, Head(List).id)
    ELSE A

ResetLoop(A, List) ==
    IF List = <<>> THEN A
    ELSE LET Tmp == Head(List)
         IN ResetLoop(IF Tmp.id # 0 THEN Free(A, Tmp.id) ELSE A, Tail(List))

\* BumpPointerAllocator::reset
BumpPointerAllocator_reset(A) ==
    [ResetLoop(A, A.BlockList) EXCEPT !.BlockList = <<BlockMeta(0)>>, !.Handed = <<>>]

(***************************************************************************)
(* Numbers, qualifiers, sequence ids                                       *)
(***************************************************************************)
RECURSIVE Derived(_, _)
RECURSIVE SkipDigits(_)
\* while (numLeft() != 0 && std::isdigit(*First)) ++First;
SkipDigits(p) ==
    IF numLeft(p) # 0 /\ isdigit(look(p, 0)) THEN SkipDigits(Advance(p, 1)) ELSE p

\* parseNumber: the StringView of the number (empty when there is none) and
\* the parser.  An 'n' that is not followed by a digit stays consumed.
parseNumber(p, AllowNegative) ==
    LET p1 == IF AllowNegative THEN consumeIf(p, "n") ELSE p IN
    IF numLeft(p1) = 0 \/ ~isdigit(look(p1, 0))
    THEN [v |-> "", p |-> p1]
    ELSE LET p2 == SkipDigits(p1) IN
         [v |-> SubSeq(p.M, p.First + 1, p2.First), p |-> p2]

RECURSIVE PositiveIntegerLoop(_, _)
PositiveIntegerLoop(p, Out) ==
    IF isdigit(look(p, 0))
    THEN PositiveIntegerLoop(Advance(p, 1), SizeMulAdd(Out, 10, DigitVal(look(p, 0))))
    ELSE [err |-> FALSE, v |-> Out, p |-> p]

\* parsePositiveInteger: err is the bool it returns, v is *Out
parsePositiveInteger(p) ==
    IF ~isdigit(look(p, 0))
    THEN [err |-> TRUE, v |-> SizeT(0), p |-> p]
    ELSE PositiveIntegerLoop(p, SizeT(0))

\* parseBareSourceName: the name (empty on failure) and the parser
parseBareSourceName(p) ==
    LET r == Derived("parsePositiveInteger", <<p>>)
        IntVal == SizeVal(r.v)
    IN
    IF r.err \/ numLeft(r.p) < IntVal
    THEN [v |-> "", p |-> r.p]
    ELSE [v |-> SubSeq(r.p.M, r.p.First + 1, r.p.First + IntVal),
          p |-> Advance(r.p, IntVal)]

\* parseCVQualifiers: <CV-Qualifiers> ::= [r] [V] [K]
parseCVQualifiers(p) ==
    LET r1 == consumeIfOk(p, "r")
        p1 == consumeIf(p, "r")
        r2 == consumeIfOk(p1, "V")
        p2 == consumeIf(p1, "V")
        r3 == consumeIfOk(p2, "K")
        p3 == consumeIf(p2, "K")
    IN [v |-> (IF r1 THEN QualRestrict ELSE 0) + (IF r2 THEN QualVolatile ELSE 0)
              + (IF r3 THEN QualConst ELSE 0),
        p |-> p3]

RECURSIVE SeqIdLoop(_, _)
SeqIdLoop(p, Id) ==
    LET c == look(p, 0) IN
    IF c \in Digits
    THEN SeqIdLoop(Advance(p, 1), SizeMulAdd(Id, 36, DigitVal(c)))
    ELSE IF c \in UpperLetters
         THEN SeqIdLoop(Advance(p, 1), SizeMulAdd(Id, 36, (Ord(c) - Ord("A")) + 10))
         ELSE [err |-> FALSE, v |-> Id, p |-> p]

\* parseSeqId: <seq-id> ::= <0-9A-Z>+
parseSeqId(p) ==
    IF look(p, 0) \notin Digits /\ look(p, 0) \notin UpperLetters
    THEN [err |-> TRUE, v |-> SizeT(0), p |-> p]
    ELSE SeqIdLoop(p, SizeT(0))

\* parseCallOffset: TRUE when the call offset is malformed
parseCallOffset(p) ==
    IF consumeIfOk(p, "h")
    THEN LET r == Derived("parseNumber", <<consumeIf(p, "h"), TRUE>>) IN
         IF r.v = "" THEN [err |-> TRUE, p |-> r.p]
         ELSE [err |-> ~consumeIfOk(r.p, "_"), p |-> consumeIf(r.p, "_")]
    ELSE IF consumeIfOk(p, "v")
    THEN LET r1 == Derived("parseNumber", <<consumeIf(p, "v"), TRUE>>) IN
         IF r1.v = "" THEN [err |-> TRUE, p |-> r1.p]
         ELSE IF ~consumeIfOk(r1.p, "_") THEN [err |-> TRUE, p |-> r1.p]
         ELSE LET r2 == Derived("parseNumber", <<consumeIf(r1.p, "_"), TRUE>>) IN
              IF r2.v = "" THEN [err |-> TRUE, p |-> r2.p]
              ELSE [err |-> ~consumeIfOk(r2.p, "_"), p |-> consumeIf(r2.p, "_")]
    ELSE [err |-> TRUE, p |-> p]

(***************************************************************************)
(* Operator encodings                                                      *)
(***************************************************************************)
\* OperatorInfo::OIKind, in declaration order
OIKinds ==
    <<"Prefix", "Postfix", "Binary", "Array", "Member", "New", "Del", "Call",
      "CCast", "Conditional", "NameOnly", "NamedCast", "OfIdOp">>

OIKindVal(k) == (CHOOSE i \in 1..Len(OIKinds) : OIKinds[i] = k) - 1

\* Unnameable = NamedCast
Unnameable == OIKindVal("NamedCast")

Op(Enc, Kind, Flag, Prec, Name) ==
    [Enc |-> Enc, Kind |-> Kind, Flag |-> Flag, Prec |-> Prec, Name |-> Name]

\* AbstractManglingParser::Ops
Ops ==
    <<
      Op("aN", "Binary", FALSE, "Assign", "operator&="),
      Op("aS", "Binary", FALSE, "Assign", "operator="),
      Op("aa", "Binary", FALSE, "AndIf", "operator&&"),
      Op("ad", "Prefix", FALSE, "Unary", "operator&"),
      Op("an", "Binary", FALSE, "And", "operator&"),
      Op("at", "OfIdOp", TRUE, "Unary", "alignof "),
      Op("aw", "NameOnly", FALSE, "Primary", "operator co_await"),
      Op("az", "OfIdOp", FALSE, "Unary", "alignof "),
      Op("cc", "NamedCast", FALSE, "Postfix", "const_cast"),
      Op("cl", "Call", FALSE, "Postfix", "operator()"),
      Op("cm", "Binary", FALSE, "Comma", "operator,"),
      Op("co", "Prefix", FALSE, "Unary", "operator~"),
      Op("cv", "CCast", FALSE, "Cast", "operator"),
      Op("dV", "Binary", FALSE, "Assign", "operator/="),
      Op("da", "Del", TRUE, "Unary", "operator delete[]"),
      Op("dc", "NamedCast", FALSE, "Postfix", "dynamic_cast"),
      Op("de", "Prefix", FALSE, "Unary", "operator*"),
      Op("dl", "Del", FALSE, "Unary", "operator delete"),
      Op("ds", "Member", FALSE, "PtrMem", "operator.*"),
      Op("dt", "Member", FALSE, "Postfix", "operator."),
      Op("dv", "Binary", FALSE, "Assign", "operator/"),
      Op("eO", "Binary", FALSE, "Assign", "operator^="),
      Op("eo", "Binary", FALSE, "Xor", "operator^"),
      Op("eq", "Binary", FALSE, "Equality", "operator=="),
      Op("ge", "Binary", FALSE, "Relational", "operator>="),
      Op("gt", "Binary", FALSE, "Relational", "operator>"),
      Op("ix", "Array", FALSE, "Postfix", "operator[]"),
      Op("lS", "Binary", FALSE, "Assign", "operator<<="),
      Op("le", "Binary", FALSE, "Relational", "operator<="),
      Op("ls", "Binary", FALSE, "Shift", "operator<<"),
      Op("lt", "Binary", FALSE, "Relational", "operator<"),
      Op("mI", "Binary", FALSE, "Assign", "operator-="),
      Op("mL", "Binary", FALSE, "Assign", "operator*="),
      Op("mi", "Binary", FALSE, "Additive", "operator-"),
      Op("ml", "Binary", FALSE, "Multiplicative", "operator*"),
      Op("mm", "Postfix", FALSE, "Postfix", "operator--"),
      Op("na", "New", TRUE, "Unary", "operator new[]"),
      Op("ne", "Binary", FALSE, "Equality", "operator!="),
      Op("ng", "Prefix", FALSE, "Unary", "operator-"),
      Op("nt", "Prefix", FALSE, "Unary", "operator!"),
      Op("nw", "New", FALSE, "Unary", "operator new"),
      Op("oR", "Binary", FALSE, "Assign", "operator|="),
      Op("oo", "Binary", FALSE, "OrIf", "operator||"),
      Op("or", "Binary", FALSE, "Ior", "operator|"),
      Op("pL", "Binary", FALSE, "Assign", "operator+="),
      Op("pl", "Binary", FALSE, "Additive", "operator+"),
      Op("pm", "Member", FALSE, "PtrMem", "operator->*"),
      Op("pp", "Postfix", FALSE, "Postfix", "operator++"),
      Op("ps", "Prefix", FALSE, "Unary", "operator+"),
      Op("pt", "Member", TRUE, "Postfix", "operator->"),
      Op("qu", "Conditional", FALSE, "Conditional", "operator?"),
      Op("rM", "Binary", FALSE, "Assign", "operator%="),
      Op("rS", "Binary", FALSE, "Assign", "operator>>="),
      Op("rc", "NamedCast", FALSE, "Postfix", "reinterpret_cast"),
      Op("rm", "Binary", FALSE, "Multiplicative", "operator%"),
      Op("rs", "Binary", FALSE, "Shift", "operator>>"),
      Op("sc", "NamedCast", FALSE, "Postfix", "static_cast"),
      Op("ss", "Binary", FALSE, "Spaceship", "operator<=>"),
      Op("st", "OfIdOp", TRUE, "Unary", "sizeof "),
      Op("sz", "OfIdOp", FALSE, "Unary", "sizeof "),
      Op("te", "OfIdOp", FALSE, "Postfix", "typeid "),
      Op("ti", "OfIdOp", TRUE, "Postfix", "typeid ")
    >>

NumOps == Len(Ops)

\* OperatorInfo::getSymbol
getSymbol(O) ==
    IF OIKindVal(O.Kind) < Unnameable
    THEN LET Res == dropFront(O.Name, 8) IN
         IF startsWith(Res, " ") THEN dropFront(Res, 1) ELSE Res
    ELSE O.Name

\* operator< as it would be if it compared the first byte only
OpLess_firstByteOnly(O, Peek) ==
    Ord(CharAt(O.Enc, 1)) < Ord(CharAt(Peek, 1))

\* OperatorInfo::operator<(const char *Peek)
OpLess(O, Peek) ==
    \/ Ord(CharAt(O.Enc, 1)) < Ord(CharAt(Peek, 1))
    \/ /\ CharAt(O.Enc, 1) = CharAt(Peek, 1)
       /\ Ord(CharAt(O.Enc, 2)) < Ord(CharAt(Peek, 2))

\* OperatorInfo::operator==(const char *Peek)
OpEq(O, Peek) ==
    CharAt(O.Enc, 1) = CharAt(Peek, 1) /\ CharAt(O.Enc, 2) = CharAt(Peek, 2)

RECURSIVE OpSearch(_, _, _)
\* The binary search of parseOperatorEncoding, on 0-based inclusive bounds.
OpSearch(lower, upper, Peek) ==
    IF upper = lower THEN lower
    ELSE LET middle == (upper + lower) \div 2 IN
         IF OpLess(Ops[middle + 1], Peek)
         THEN OpSearch(middle + 1, upper, Peek)
         ELSE OpSearch(lower, middle, Peek)

\* parseOperatorEncoding: op is the 1-based index of the entry found in Ops,
\* 0 for nullptr.
parseOperatorEncoding(p) ==
    IF numLeft(p) < 2 THEN [op |-> 0, p |-> p]
    ELSE LET Peek == SubSeq(p.M, p.First + 1, p.First + 2)
             lower == OpSearch(0, NumOps - 1, Peek)
         IN IF ~OpEq(Ops[lower + 1], Peek) THEN [op |-> 0, p |-> p]
            ELSE [op |-> lower + 1, p |-> Advance(p, 2)]

(***************************************************************************)
(* Node constructors                                                       *)
(***************************************************************************)
\* The cache a wrapper node copies from the node it wraps.
Wrap(K, Arena, Child) ==
    [Node(K) EXCEPT !.A = Child,
                    !.RHSComponentCache = Arena[Child].RHSComponentCache]

PointerType(Arena, Pointee) == Wrap("PointerType", Arena, Pointee)

ReferenceType(Arena, Pointee, RK) ==
    [Wrap("ReferenceType", Arena, Pointee) EXCEPT !.S = RK]

QualType(Arena, Child, Quals) ==
    [Node("QualType") EXCEPT !.A = Child, !.CVQuals = Quals,
        !.RHSComponentCache = Arena[Child].RHSComponentCache,
        !.ArrayCache = Arena[Child].ArrayCache,
        !.FunctionCache = Arena[Child].FunctionCache]

AbiTagAttr(Arena, Base, Tag) ==
    [Node("AbiTagAttr") EXCEPT !.A = Base, !.S = Tag,
        !.RHSComponentCache = Arena[Base].RHSComponentCache,
        !.ArrayCache = Arena[Base].ArrayCache,
        !.FunctionCache = Arena[Base].FunctionCache]

Unary(K, Child) == [Node(K) EXCEPT !.A = Child]

Binary(K, First_, Second_) == [Node(K) EXCEPT !.A = First_, !.B = Second_]

Tagged(K, Str, Child) == [Node(K) EXCEPT !.S = Str, !.A = Child]

ArrayNode(K, Elems) == [Node(K) EXCEPT !.L = Elems]

ForwardTemplateReference(Index) ==
    [Node("ForwardTemplateReference") EXCEPT !.N = Index,
        !.RHSComponentCache = "Unknown", !.ArrayCache = "Unknown",
        !.FunctionCache = "Unknown"]

\* ParameterPack's constructor: a cache is No when it is No for every element
ParameterPack(Arena, Data) ==
    [Node("ParameterPack") EXCEPT !.L = Data,
        !.ArrayCache =
            IF \A i \in 1..Len(Data) : Arena[Data[i]].ArrayCache = "No"
            THEN "No" ELSE "Unknown",
        !.FunctionCache =
            IF \A i \in 1..Len(Data) : Arena[Data[i]].FunctionCache = "No"
            THEN "No" ELSE "Unknown",
        !.RHSComponentCache =
            IF \A i \in 1..Len(Data) : Arena[Data[i]].RHSComponentCache = "No"
            THEN "No" ELSE "Unknown"]

FunctionEncoding(Ret_, Name_, Params_, Attrs_, CVQuals_, RefQual_) ==
    [Node("FunctionEncoding") EXCEPT !.A = Ret_, !.B = Name_, !.L = Params_,
        !.C = Attrs_, !.CVQuals = CVQuals_, !.RefQual = RefQual_,
        !.RHSComponentCache = "Yes", !.FunctionCache = "Yes"]

CtorDtorName(Basename, IsDtor, Variant) ==
    [Node("CtorDtorName") EXCEPT !.A = Basename, !.F = IsDtor, !.N = Variant]

(***************************************************************************)
(* Parsers that call no other production                                   *)
(***************************************************************************)
\* NameState; has is FALSE for a null NameState pointer.
NameState(p) ==
    [has |-> TRUE, CtorDtorConversion |-> FALSE, EndsWithTemplateArgs |-> FALSE,
     CVQualifiers |-> QualNone, ReferenceQualifier |-> FrefQualNone,
     ForwardTemplateRefsBegin |-> Len(p.ForwardTemplateRefs)]

NoState ==
    [has |-> FALSE, CtorDtorConversion |-> FALSE, EndsWithTemplateArgs |-> FALSE,
     CVQualifiers |-> QualNone, ReferenceQualifier |-> FrefQualNone,
     ForwardTemplateRefsBegin |-> 0]

\* The result of a parser that takes a NameState
Ret3(n, p, ns) == [n |-> n, p |-> p, ns |-> ns]

Fail3(p, ns) == [n |-> NullPtr, p |-> [p EXCEPT !.nulls = TRUE], ns |-> ns]

Unmodelled3(p, ns) ==
    [n |-> NullPtr, p |-> [p EXCEPT !.nulls = TRUE, !.unmodelled = TRUE], ns |-> ns]

\* if (State) State->field = value
SetNS(ns, field, value) == IF ns.has THEN [ns EXCEPT ![field] = value] ELSE ns

\* parseSourceName as it would be if it accepted a length one byte longer
\* than the input that is left: the name then takes in the terminating NUL
parseSourceName_oneTooLong(p) ==
    LET r == Derived("parsePositiveInteger", <<p>>)
        Length == SizeVal(r.v)
    IN
    IF r.err THEN Fail(r.p)
    ELSE IF numLeft(r.p) + 1 < Length \/ Length = 0 THEN Fail(r.p)
    ELSE LET Name == SubSeq(r.p.M \o NUL, r.p.First + 1, r.p.First + Length)
             p1 == Advance(r.p, Length)
         IN IF startsWith(Name, "_GLOBAL__N")
            THEN make(p1, NameType("(anonymous namespace)"))
            ELSE make(p1, NameType(Name))

\* parseSourceName: <source-name> ::= <positive length number> <identifier>
parseSourceName(p) ==
    LET r == Derived("parsePositiveInteger", <<p>>)
        Length == SizeVal(r.v)
    IN
    IF r.err THEN Fail(r.p)
    ELSE IF numLeft(r.p) < Length \/ Length = 0 THEN Fail(r.p)
    ELSE LET Name == SubSeq(r.p.M, r.p.First + 1, r.p.First + Length)
             p1 == Advance(r.p, Length)
         IN IF startsWith(Name, "_GLOBAL__N")
            THEN make(p1, NameType("(anonymous namespace)"))
            ELSE make(p1, NameType(Name))

RECURSIVE parseAbiTags(_, _)
\* parseAbiTags: <abi-tags> ::= (B <source-name>)*
parseAbiTags(p, N) ==
    IF ~consumeIfOk(p, "B") THEN Ret(N, p)
    ELSE LET r == Derived("parseBareSourceName", <<consumeIf(p, "B")>>) IN
         IF r.v = "" THEN Fail(r.p)
         ELSE LET m == make(r.p, AbiTagAttr(r.p.Arena, N, r.v)) IN
              Derived("parseAbiTags", <<m.p, m.n>>)

\* The SpecialSubKind a lower-case letter after S selects ("" for none)
SpecialSubKindOf(c) ==
    CASE c = "a" -> "allocator"
      [] c = "b" -> "basic_string"
      [] c = "d" -> "iostream"
      [] c = "i" -> "istream"
      [] c = "o" -> "ostream"
      [] c = "s" -> "string"
      [] OTHER -> ""

\* parseSubstitution as it would be if S_ did not test Subs.empty(): with an
\* empty table it returns what lies where Subs[0] would be, some node
parseSubstitution_uncheckedEmpty(p) ==
    IF ~consumeIfOk(p, "S") THEN Fail(p)
    ELSE LET p1 == consumeIf(p, "S") IN
    IF look(p1, 0) \in LowerLetters
    THEN LET Kind == SpecialSubKindOf(look(p1, 0)) IN
         IF Kind = "" THEN Fail(p1)
         ELSE LET m == make(Advance(p1, 1), [Node("SpecialSubstitution") EXCEPT !.S = Kind])
                  t == Derived("parseAbiTags", <<m.p, m.n>>)
              IN IF t.n # m.n /\ t.n # NullPtr THEN Ret(t.n, PushSub(t.p, t.n))
                 ELSE IF t.n = NullPtr
                      \* WithTags is null: it is pushed and returned as it is
                      THEN [n |-> NullPtr, p |-> PushSub(t.p, NullPtr)]
                      ELSE t
    ELSE IF consumeIfOk(p1, "_")
    THEN LET p2 == consumeIf(p1, "_") IN
         IF Len(p2.Subs) = 0
         THEN IF Len(p2.Arena) = 0 THEN Fail(Traced(p2, "subst", NullPtr, 0, "_"))
              ELSE Ret(1, Traced(p2, "subst", 1, 0, "_"))
         ELSE Ret(p2.Subs[1], Traced(p2, "subst", p2.Subs[1], 0, "_"))
    ELSE LET r == Derived("parseSeqId", <<p1>>) IN
         IF r.err THEN Fail(r.p)
         ELSE LET Index == SizeVal(SizeInc(r.v))
                  id == SubSeq(p.M, p1.First + 1, r.p.First)
              IN
              IF ~consumeIfOk(r.p, "_") THEN Fail(Traced(r.p, "subst", NullPtr, Index, id))
              ELSE IF Index >= Len(r.p.Subs)
              THEN Fail(Traced(consumeIf(r.p, "_"), "subst", NullPtr, Index, id \o "_"))
              ELSE Ret(r.p.Subs[Index + 1],
                       Traced(consumeIf(r.p, "_"), "subst", r.p.Subs[Index + 1], Index,
                              id \o "_"))

\* parseSubstitution
parseSubstitution(p) ==
    IF ~consumeIfOk(p, "S") THEN Fail(p)
    ELSE LET p1 == consumeIf(p, "S") IN
    IF look(p1, 0) \in LowerLetters
    THEN LET Kind == SpecialSubKindOf(look(p1, 0)) IN
         IF Kind = "" THEN Fail(p1)
         ELSE LET m == make(Advance(p1, 1), [Node("SpecialSubstitution") EXCEPT !.S = Kind])
                  t == Derived("parseAbiTags", <<m.p, m.n>>)
              IN IF t.n # m.n /\ t.n # NullPtr THEN Ret(t.n, PushSub(t.p, t.n))
                 ELSE IF t.n = NullPtr
                      \* WithTags is null: it is pushed and returned as it is
                      THEN [n |-> NullPtr, p |-> PushSub(t.p, NullPtr)]
                      ELSE t
    ELSE IF consumeIfOk(p1, "_")
    THEN LET p2 == consumeIf(p1, "_") IN
         IF Len(p2.Subs) = 0 THEN Fail(Traced(p2, "subst", NullPtr, 0, "_"))
         ELSE Ret(p2.Subs[1], Traced(p2, "subst", p2.Subs[1], 0, "_"))
    ELSE LET r == Derived("parseSeqId", <<p1>>) IN
         IF r.err THEN Fail(r.p)
         ELSE LET Index == SizeVal(SizeInc(r.v))
                  id == SubSeq(p.M, p1.First + 1, r.p.First)
              IN
              IF ~consumeIfOk(r.p, "_") THEN Fail(Traced(r.p, "subst", NullPtr, Index, id))
              ELSE IF Index >= Len(r.p.Subs)
              THEN Fail(Traced(consumeIf(r.p, "_"), "subst", NullPtr, Index, id \o "_"))
              ELSE Ret(r.p.Subs[Index + 1],
                       Traced(consumeIf(r.p, "_"), "subst", r.p.Subs[Index + 1], Index,
                              id \o "_"))

\* The list a TemplateParams entry points at: 1 is &OuterTemplateParams
\* and 0 is the null pointer of a generic lambda without explicit parameters.
Scope(p, ptr) == IF ptr = 1 THEN p.OuterTemplateParams ELSE <<>>

\* parseTemplateParam as it would be if it looked every parameter up in
\* the table, also where forward template references are permitted
parseTemplateParam_neverForward(p) ==
    IF ~consumeIfOk(p, "T") THEN Fail(p)
    ELSE
    LET p1 == consumeIf(p, "T")
        hasL == consumeIfOk(p1, "L")
        lv == IF hasL THEN Derived("parsePositiveInteger", <<consumeIf(p1, "L")>>)
              ELSE [err |-> FALSE, v |-> SizeT(0), p |-> p1]
    IN
    IF lv.err THEN Fail(lv.p)
    ELSE IF hasL /\ ~consumeIfOk(lv.p, "_") THEN Fail(lv.p)
    ELSE
    LET Level == IF hasL THEN SizeVal(SizeInc(lv.v)) ELSE 0
        p2 == IF hasL THEN consumeIf(lv.p, "_") ELSE lv.p
        short == consumeIfOk(p2, "_")
        ix == IF short THEN [err |-> FALSE, v |-> SizeT(0), p |-> consumeIf(p2, "_")]
              ELSE Derived("parsePositiveInteger", <<p2>>)
    IN
    IF ix.err THEN Fail(ix.p)
    ELSE IF ~short /\ ~consumeIfOk(ix.p, "_") THEN Fail(ix.p)
    ELSE
    LET Index == IF short THEN 0 ELSE SizeVal(SizeInc(ix.v))
        p3 == IF short THEN ix.p ELSE consumeIf(ix.p, "_")
        Looked(r) == Ret(r.n, TracedParam(r.p, p3, r.n, Level, Index))
    IN
    IF \/ Level >= Len(p3.TemplateParams)
       \/ p3.TemplateParams[Level + 1] = NullPtr
       \/ Index >= Len(Scope(p3, p3.TemplateParams[Level + 1]))
    THEN IF p3.ParsingLambdaParamsAtLevel = Level /\ Level <= Len(p3.TemplateParams)
         THEN Looked(make(IF Level = Len(p3.TemplateParams)
                          THEN [p3 EXCEPT !.TemplateParams = Append(@, NullPtr)]
                          ELSE p3,
                          NameType("auto")))
         ELSE Looked(Fail(p3))
    ELSE Looked(Ret(Scope(p3, p3.TemplateParams[Level + 1])[Index + 1], p3))

\* parseTemplateParam
parseTemplateParam(p) ==
    IF ~consumeIfOk(p, "T") THEN Fail(p)
    ELSE
    LET p1 == consumeIf(p, "T")
        hasL == consumeIfOk(p1, "L")
        lv == IF hasL THEN Derived("parsePositiveInteger", <<consumeIf(p1, "L")>>)
              ELSE [err |-> FALSE, v |-> SizeT(0), p |-> p1]
    IN
    IF lv.err THEN Fail(lv.p)
    ELSE IF hasL /\ ~consumeIfOk(lv.p, "_") THEN Fail(lv.p)
    ELSE
    LET Level == IF hasL THEN SizeVal(SizeInc(lv.v)) ELSE 0
        p2 == IF hasL THEN consumeIf(lv.p, "_") ELSE lv.p
        short == consumeIfOk(p2, "_")
        ix == IF short THEN [err |-> FALSE, v |-> SizeT(0), p |-> consumeIf(p2, "_")]
              ELSE Derived("parsePositiveInteger", <<p2>>)
    IN
    IF ix.err THEN Fail(ix.p)
    ELSE IF ~short /\ ~consumeIfOk(ix.p, "_") THEN Fail(ix.p)
    ELSE
    LET Index == IF short THEN 0 ELSE SizeVal(SizeInc(ix.v))
        p3 == IF short THEN ix.p ELSE consumeIf(ix.p, "_")
        Looked(r) == Ret(r.n, TracedParam(r.p, p3, r.n, Level, Index))
    IN
    IF p3.PermitForwardTemplateReferences /\ Level = 0
    THEN LET m == make(p3, ForwardTemplateReference(Index)) IN
         Looked(Ret(m.n, [m.p EXCEPT !.ForwardTemplateRefs = Append(@, m.n)]))
    ELSE IF \/ Level >= Len(p3.TemplateParams)
            \/ p3.TemplateParams[Level + 1] = NullPtr
            \/ Index >= Len(Scope(p3, p3.TemplateParams[Level + 1]))
    THEN IF p3.ParsingLambdaParamsAtLevel = Level /\ Level <= Len(p3.TemplateParams)
         THEN Looked(make(IF Level = Len(p3.TemplateParams)
                          THEN [p3 EXCEPT !.TemplateParams = Append(@, NullPtr)]
                          ELSE p3,
                          NameType("auto")))
         ELSE Looked(Fail(p3))
    ELSE Looked(Ret(Scope(p3, p3.TemplateParams[Level + 1])[Index + 1], p3))

\* resolveForwardTemplateRefs: err is the bool it returns
RECURSIVE ResolveLoop(_, _)
ResolveLoop(p, I) ==
    IF I >= Len(p.ForwardTemplateRefs) THEN [err |-> FALSE, p |-> p]
    ELSE LET Ref == p.ForwardTemplateRefs[I + 1]
             Idx == p.Arena[Ref].N
         IN IF \/ Len(p.TemplateParams) = 0
               \/ p.TemplateParams[1] = NullPtr
               \/ Idx >= Len(Scope(p, p.TemplateParams[1]))
            THEN [err |-> TRUE, p |-> p]
            ELSE ResolveLoop(
                   [p EXCEPT !.Arena[Ref].A = Scope(p, p.TemplateParams[1])[Idx + 1]],
                   I + 1)

resolveForwardTemplateRefs(p, State) ==
    LET r == ResolveLoop(p, State.ForwardTemplateRefsBegin) IN
    IF r.err THEN r
    ELSE [err |-> FALSE,
          p |-> [r.p EXCEPT !.ForwardTemplateRefs =
                                SubSeq(@, 1, State.ForwardTemplateRefsBegin)]]

RECURSIVE DigitsEnd(_, _)
\* for (; t1 != last && std::isdigit(*t1); ++t1);  on 0-based offsets into s
DigitsEnd(s, t1) ==
    IF t1 # Len(s) /\ isdigit(CharAt(s, t1 + 1)) THEN DigitsEnd(s, t1 + 1) ELSE t1

\* itanium_demangle::parse_discriminator: the new value of first
parse_discriminator(s, first) ==
    IF first = Len(s) THEN first
    ELSE IF CharAt(s, first + 1) = "_"
    THEN LET t1 == first + 1 IN
         IF t1 = Len(s) THEN first
         ELSE IF isdigit(CharAt(s, t1 + 1)) THEN t1 + 1
         ELSE IF CharAt(s, t1 + 1) = "_"
              THEN LET t2 == DigitsEnd(s, t1 + 1) IN
                   IF t2 # Len(s) /\ CharAt(s, t2 + 1) = "_" THEN t2 + 1 ELSE first
              ELSE first
    ELSE IF isdigit(CharAt(s, first + 1))
    THEN LET t1 == DigitsEnd(s, first + 1) IN
         IF t1 = Len(s) THEN Len(s) ELSE first
    ELSE first

\* The builtin types parseType recognises by one letter ("" for none)
BuiltinType(c) ==
    CASE c = "v" -> "void"
      [] c = "w" -> "wchar_t"
      [] c = "b" -> "bool"
      [] c = "c" -> "char"
      [] c = "a" -> "signed char"
      [] c = "h" -> "unsigned char"
      [] c = "s" -> "short"
      [] c = "t" -> "unsigned short"
      [] c = "i" -> "int"
      [] c = "j" -> "unsigned int"
      [] c = "l" -> "long"
      [] c = "m" -> "unsigned long"
      [] c = "x" -> "long long"
      [] c = "y" -> "unsigned long long"
      [] c = "n" -> "__int128"
      [] c = "o" -> "unsigned __int128"
      [] c = "z" -> "..."
      [] OTHER -> ""

\* The builtin types parseType recognises by D and one letter ("" for none)
BuiltinTypeD(c) ==
    CASE c = "i" -> "char32_t"
      [] c = "s" -> "char16_t"
      [] c = "u" -> "char8_t"
      [] c = "a" -> "auto"
      [] c = "c" -> "decltype(auto)"
      [] c = "n" -> "std::nullptr_t"
      [] OTHER -> ""

(***************************************************************************)
(* The recursive-descent productions                                       *)
(***************************************************************************)
RECURSIVE parseName(_, _), parseLocalName(_, _), parseUnscopedName(_, _, _),
          parseUnqualifiedName(_, _, _), parseOperatorName(_, _),
          parseCtorDtorName(_, _, _), parseNestedName(_, _),
          NestedNameLoop(_, _, _), parseType(_), TypeDispatch(_),
          parseClassEnumType(_), parseQualifiedType(_), parseEncoding(_),
          EncodingBody(_), EncodingParams(_), parseSpecialName(_),
          parseTemplateArg(_), TemplateArgLoop(_), parseTemplateArgs(_, _),
          TemplateArgsLoop(_, _), parseExpr(_), parseExprPrimary(_),
          parseBinaryExpr(_, _, _), parsePrefixExpr(_, _, _),
          ConversionExprLoop(_, _)

\* parseName: <name> ::= <nested-name> | <local-name>
\*                     | <unscoped-template-name> <template-args> | <unscoped-name>
parseName(p, State) ==
    IF look(p, 0) = "N" THEN Derived("parseNestedName", <<p, State>>)
    ELSE IF look(p, 0) = "Z" THEN Derived("parseLocalName", <<p, State>>)
    ELSE
    LET r == Derived("parseUnscopedName", <<p, State, TRUE>>) IN
    IF r.n = NullPtr THEN Ret3(NullPtr, r.p, r.ns)
    ELSE IF look(r.p, 0) = "I"
    THEN LET p1 == IF ~r.IsSubst THEN PushSub(r.p, r.n) ELSE r.p
             TA == Derived("parseTemplateArgs", <<p1, State.has>>)
         IN IF TA.n = NullPtr THEN Ret3(NullPtr, TA.p, r.ns)
            ELSE LET m == make(TA.p, Binary("NameWithTemplateArgs", r.n, TA.n)) IN
                 Ret3(m.n, m.p, SetNS(r.ns, "EndsWithTemplateArgs", TRUE))
    ELSE IF r.IsSubst THEN Fail3(r.p, r.ns)
    ELSE Ret3(r.n, r.p, r.ns)

\* parseLocalName: Z <function encoding> E <entity name> [<discriminator>] ...
parseLocalName(p, State) ==
    IF ~consumeIfOk(p, "Z") THEN Fail3(p, State)
    ELSE
    LET e == Derived("parseEncoding", <<consumeIf(p, "Z")>>) IN
    IF e.n = NullPtr THEN Ret3(NullPtr, e.p, State)
    ELSE IF ~consumeIfOk(e.p, "E") THEN Fail3(e.p, State)
    ELSE
    LET p1 == consumeIf(e.p, "E") IN
    IF consumeIfOk(p1, "s")
    THEN LET p2 == consumeIf(p1, "s")
             p3 == [p2 EXCEPT !.First = parse_discriminator(p2.M, p2.First)]
             sl == make(p3, NameType("string literal"))
             m == make(sl.p, Binary("LocalName", e.n, sl.n))
         IN Ret3(m.n, m.p, State)
    ELSE IF consumeIfOk(p1, "d")
    THEN LET nr == Derived("parseNumber", <<consumeIf(p1, "d"), TRUE>>) IN
         IF ~consumeIfOk(nr.p, "_") THEN Fail3(nr.p, State)
         ELSE LET N == Derived("parseName", <<consumeIf(nr.p, "_"), State>>) IN
              IF N.n = NullPtr THEN N
              ELSE LET m == make(N.p, Binary("LocalName", e.n, N.n)) IN
                   Ret3(m.n, m.p, N.ns)
    ELSE LET Entity == Derived("parseName", <<p1, State>>) IN
         IF Entity.n = NullPtr THEN Entity
         ELSE LET p2 == [Entity.p EXCEPT
                            !.First = parse_discriminator(Entity.p.M, Entity.p.First)]
                  m == make(p2, Binary("LocalName", e.n, Entity.n))
              IN Ret3(m.n, m.p, Entity.ns)

\* parseUnscopedName: <unscoped-name> ::= [St] <unqualified-name>, or a
\* substitution when the caller passes IsSubst.  Module names are not modelled.
parseUnscopedName(p, State, WantIsSubst) ==
    LET hasStd == consumeIfOk(p, "St")
        sm == IF hasStd THEN make(consumeIf(p, "St"), NameType("std")) ELSE Ret(NullPtr, p)
        Std == sm.n
        p1 == sm.p
    IN
    IF look(p1, 0) = "S"
    THEN LET S == Derived("parseSubstitution", <<p1>>) IN
         IF S.n = NullPtr THEN [n |-> NullPtr, p |-> S.p, ns |-> State, IsSubst |-> FALSE]
         ELSE IF WantIsSubst /\ Std = NullPtr
              THEN [n |-> S.n, p |-> S.p, ns |-> State, IsSubst |-> TRUE]
              ELSE [n |-> NullPtr, p |-> [S.p EXCEPT !.nulls = TRUE], ns |-> State,
                    IsSubst |-> FALSE]
    ELSE LET u == Derived("parseUnqualifiedName", <<p1, State, Std>>) IN
         [n |-> u.n, p |-> u.p, ns |-> u.ns, IsSubst |-> FALSE]

\* parseUnqualifiedName.  Module names, unnamed types and structured
\* bindings are not modelled.
parseUnqualifiedName(p, State, Scope_) ==
    IF look(p, 0) = "W" THEN Unmodelled3(p, State)
    ELSE
    LET p1 == consumeIf(p, "L")
        c == look(p1, 0)
        r == IF c \in Digits \ {"0"}
             THEN LET sn == Derived("parseSourceName", <<p1>>) IN
                  [n |-> sn.n, p |-> sn.p, ns |-> State, SoFar |-> Scope_]
             ELSE IF c = "U"
             THEN [n |-> NullPtr, p |-> Unmodelled(p1).p, ns |-> State, SoFar |-> Scope_]
             ELSE IF consumeIfOk(p1, "DC")
             THEN [n |-> NullPtr, p |-> Unmodelled(p1).p, ns |-> State, SoFar |-> Scope_]
             ELSE IF c = "C" \/ c = "D"
             THEN IF Scope_ = NullPtr
                  THEN [n |-> NullPtr, p |-> Fail(p1).p, ns |-> State, SoFar |-> Scope_]
                  ELSE Derived("parseCtorDtorName", <<p1, Scope_, State>>)
             ELSE LET o == Derived("parseOperatorName", <<p1, State>>) IN
                  [n |-> o.n, p |-> o.p, ns |-> o.ns, SoFar |-> Scope_]
    IN
    IF r.n = NullPtr THEN Ret3(NullPtr, r.p, r.ns)
    ELSE LET t == Derived("parseAbiTags", <<r.p, r.n>>) IN
         IF t.n = NullPtr THEN Ret3(NullPtr, t.p, r.ns)
         ELSE IF r.SoFar # NullPtr
              THEN LET m == make(t.p, Binary("NestedName", r.SoFar, t.n)) IN
                   Ret3(m.n, m.p, r.ns)
              ELSE Ret3(t.n, t.p, r.ns)

\* parseOperatorName as it would be if the two overrides of the conversion
\* case were plain assignments that nothing takes back
parseOperatorName_keepsOverrides(p, State) ==
    LET Returns(r) == Ret3(r.n, TracedFlags(r.p, p, "opname", r.n), r.ns) IN
    Returns(
        LET e == Derived("parseOperatorEncoding", <<p>>) IN
        IF e.op # 0
        THEN LET O == Ops[e.op] IN
             IF O.Kind = "CCast"
             THEN LET p1 == [e.p EXCEPT
                                !.TryToParseTemplateArgs = FALSE,
                                !.PermitForwardTemplateReferences = @ \/ State.has]
                      Ty == Derived("parseType", <<p1>>)
                      p2 == Ty.p
                  IN IF Ty.n = NullPtr THEN Ret3(NullPtr, p2, State)
                     ELSE LET m == make(p2, Unary("ConversionOperatorType", Ty.n)) IN
                          Ret3(m.n, m.p, SetNS(State, "CtorDtorConversion", TRUE))
             ELSE IF OIKindVal(O.Kind) >= Unnameable THEN Fail3(e.p, State)
             ELSE IF O.Kind = "Member" /\ ~O.Flag THEN Fail3(e.p, State)
             ELSE LET m == make(e.p, NameType(O.Name)) IN Ret3(m.n, m.p, State)
        ELSE IF consumeIfOk(p, "li")
        THEN LET SN == Derived("parseSourceName", <<consumeIf(p, "li")>>) IN
             IF SN.n = NullPtr THEN Ret3(NullPtr, SN.p, State)
             ELSE LET m == make(SN.p, Unary("LiteralOperator", SN.n)) IN
                  Ret3(m.n, m.p, State)
        ELSE IF consumeIfOk(p, "v")
        THEN LET p1 == consumeIf(p, "v") IN
             IF look(p1, 0) \in Digits
             THEN LET SN == Derived("parseSourceName", <<Advance(p1, 1)>>) IN
                  IF SN.n = NullPtr THEN Ret3(NullPtr, SN.p, State)
                  ELSE LET m == make(SN.p, Unary("ConversionOperatorType", SN.n)) IN
                       Ret3(m.n, m.p, State)
             ELSE Fail3(p1, State)
        ELSE Fail3(p, State))

\* parseOperatorName
parseOperatorName(p, State) ==
    LET Returns(r) == Ret3(r.n, TracedFlags(r.p, p, "opname", r.n), r.ns) IN
    Returns(
        LET e == Derived("parseOperatorEncoding", <<p>>) IN
        IF e.op # 0
        THEN LET O == Ops[e.op] IN
             IF O.Kind = "CCast"
             THEN LET p1 == [e.p EXCEPT
                                !.TryToParseTemplateArgs = FALSE,
                                !.PermitForwardTemplateReferences = @ \/ State.has]
                      Ty == Derived("parseType", <<p1>>)
                      \* the two ScopedOverrides restore on every path
                      p2 == [Ty.p EXCEPT
                                !.TryToParseTemplateArgs = e.p.TryToParseTemplateArgs,
                                !.PermitForwardTemplateReferences =
                                    e.p.PermitForwardTemplateReferences]
                  IN IF Ty.n = NullPtr THEN Ret3(NullPtr, p2, State)
                     ELSE LET m == make(p2, Unary("ConversionOperatorType", Ty.n)) IN
                          Ret3(m.n, m.p, SetNS(State, "CtorDtorConversion", TRUE))
             ELSE IF OIKindVal(O.Kind) >= Unnameable THEN Fail3(e.p, State)
             ELSE IF O.Kind = "Member" /\ ~O.Flag THEN Fail3(e.p, State)
             ELSE LET m == make(e.p, NameType(O.Name)) IN Ret3(m.n, m.p, State)
        ELSE IF consumeIfOk(p, "li")
        THEN LET SN == Derived("parseSourceName", <<consumeIf(p, "li")>>) IN
             IF SN.n = NullPtr THEN Ret3(NullPtr, SN.p, State)
             ELSE LET m == make(SN.p, Unary("LiteralOperator", SN.n)) IN
                  Ret3(m.n, m.p, State)
        ELSE IF consumeIfOk(p, "v")
        THEN LET p1 == consumeIf(p, "v") IN
             IF look(p1, 0) \in Digits
             THEN LET SN == Derived("parseSourceName", <<Advance(p1, 1)>>) IN
                  IF SN.n = NullPtr THEN Ret3(NullPtr, SN.p, State)
                  ELSE LET m == make(SN.p, Unary("ConversionOperatorType", SN.n)) IN
                       Ret3(m.n, m.p, State)
             ELSE Fail3(p1, State)
        ELSE Fail3(p, State))

\* parseCtorDtorName: SoFar is passed by reference and may be replaced by
\* the expanded special substitution.
parseCtorDtorName(p, SoFar0, State) ==
    LET x == IF p.Arena[SoFar0].K = "SpecialSubstitution"
             THEN make(p, [Node("ExpandedSpecialSubstitution") EXCEPT
                              !.S = p.Arena[SoFar0].S])
             ELSE Ret(SoFar0, p)
        SoFar == x.n
        p0 == x.p
        F4(q, st) == [n |-> NullPtr, p |-> [q EXCEPT !.nulls = TRUE], ns |-> st,
                      SoFar |-> SoFar]
    IN
    IF consumeIfOk(p0, "C")
    THEN LET p1 == consumeIf(p0, "C")
             IsInherited == consumeIfOk(p1, "I")
             p2 == consumeIf(p1, "I")
         IN IF look(p2, 0) \notin {"1", "2", "3", "4", "5"} THEN F4(p2, State)
            ELSE LET Variant == DigitVal(look(p2, 0))
                     p3 == Advance(p2, 1)
                     st == SetNS(State, "CtorDtorConversion", TRUE)
                     inh == IF IsInherited THEN Derived("parseName", <<p3, st>>) ELSE Ret3(SoFar, p3, st)
                 IN IF inh.n = NullPtr
                    THEN [n |-> NullPtr, p |-> inh.p, ns |-> inh.ns, SoFar |-> SoFar]
                    ELSE LET m == make(inh.p, CtorDtorName(SoFar, FALSE, Variant)) IN
                         [n |-> m.n, p |-> m.p, ns |-> inh.ns, SoFar |-> SoFar]
    ELSE IF look(p0, 0) = "D" /\ look(p0, 1) \in {"0", "1", "2", "4", "5"}
    THEN LET Variant == DigitVal(look(p0, 1))
             m == make(Advance(p0, 2), CtorDtorName(SoFar, TRUE, Variant))
         IN [n |-> m.n, p |-> m.p, ns |-> SetNS(State, "CtorDtorConversion", TRUE),
             SoFar |-> SoFar]
    ELSE F4(p0, State)

\* parseNestedName as it would be if it returned the name without
\* Subs.pop_back()
parseNestedName_keepsEntry(p, State) ==
    IF ~consumeIfOk(p, "N") THEN Fail3(p, State)
    ELSE
    LET cv == Derived("parseCVQualifiers", <<consumeIf(p, "N")>>)
        st1 == SetNS(State, "CVQualifiers", cv.v)
        p2 == IF consumeIfOk(cv.p, "O") THEN consumeIf(cv.p, "O")
              ELSE consumeIf(cv.p, "R")
        st2 == SetNS(st1, "ReferenceQualifier",
                     IF consumeIfOk(cv.p, "O") THEN FrefQualRValue
                     ELSE IF consumeIfOk(cv.p, "R") THEN FrefQualLValue
                     ELSE FrefQualNone)
        r == Derived("NestedNameLoop", <<p2, st2, NullPtr>>)
    IN
    IF r.n = NullPtr THEN r
    ELSE IF Len(r.p.Subs) = 0 THEN Fail3(r.p, r.ns)
    ELSE LET popped == r.p IN
         Ret3(r.n, Traced(popped, "nested", r.n, Len(popped.Subs), ""), r.ns)

\* parseNestedName: N [<CV-Qualifiers>] [<ref-qualifier>] <prefix> ... E
parseNestedName(p, State) ==
    IF ~consumeIfOk(p, "N") THEN Fail3(p, State)
    ELSE
    LET cv == Derived("parseCVQualifiers", <<consumeIf(p, "N")>>)
        st1 == SetNS(State, "CVQualifiers", cv.v)
        p2 == IF consumeIfOk(cv.p, "O") THEN consumeIf(cv.p, "O")
              ELSE consumeIf(cv.p, "R")
        st2 == SetNS(st1, "ReferenceQualifier",
                     IF consumeIfOk(cv.p, "O") THEN FrefQualRValue
                     ELSE IF consumeIfOk(cv.p, "R") THEN FrefQualLValue
                     ELSE FrefQualNone)
        r == Derived("NestedNameLoop", <<p2, st2, NullPtr>>)
    IN
    IF r.n = NullPtr THEN r
    ELSE IF Len(r.p.Subs) = 0 THEN Fail3(r.p, r.ns)
    ELSE LET popped == PopSub(r.p) IN
         Ret3(r.n, Traced(popped, "nested", r.n, Len(popped.Subs), ""), r.ns)

\* while (!consumeIf('E')) { ... } of parseNestedName; n is SoFar when the
\* loop ends and NullPtr when the loop body returns nullptr (SoFar is also
\* null when the loop body never runs)
NestedNameLoop(p, State, SoFar) ==
    IF consumeIfOk(p, "E")
    THEN IF SoFar = NullPtr THEN Fail3(consumeIf(p, "E"), State)
         ELSE Ret3(SoFar, consumeIf(p, "E"), State)
    ELSE
    LET st == SetNS(State, "EndsWithTemplateArgs", FALSE)
        \* the end of one iteration: Subs.push_back(SoFar); consumeIf('M')
        Step(r) == IF r.n = NullPtr THEN Ret3(NullPtr, r.p, r.ns)
                   ELSE Derived("NestedNameLoop", <<consumeIf(PushSub(r.p, r.n), "M"), r.ns, r.n>>)
    IN
    IF look(p, 0) = "T"
    THEN IF SoFar # NullPtr THEN Fail3(p, st)
         ELSE LET t == Derived("parseTemplateParam", <<p>>) IN Step(Ret3(t.n, t.p, st))
    ELSE IF look(p, 0) = "I"
    THEN IF SoFar = NullPtr THEN Fail3(p, st)
         ELSE LET TA == Derived("parseTemplateArgs", <<p, State.has>>) IN
              IF TA.n = NullPtr THEN Ret3(NullPtr, TA.p, st)
              ELSE IF TA.p.Arena[SoFar].K = "NameWithTemplateArgs" THEN Fail3(TA.p, st)
              ELSE LET m == make(TA.p, Binary("NameWithTemplateArgs", SoFar, TA.n)) IN
                   Step(Ret3(m.n, m.p, SetNS(st, "EndsWithTemplateArgs", TRUE)))
    ELSE IF look(p, 0) = "D" /\ (look(p, 1) = "t" \/ look(p, 1) = "T")
    THEN IF SoFar # NullPtr THEN Fail3(p, st) ELSE Unmodelled3(p, st)
    ELSE IF look(p, 0) = "S"
    THEN LET S == IF look(p, 1) = "t" THEN make(Advance(p, 2), NameType("std"))
                  ELSE Derived("parseSubstitution", <<p>>)
         IN IF S.n = NullPtr THEN Ret3(NullPtr, S.p, st)
            ELSE IF SoFar # NullPtr THEN Fail3(S.p, st)
            ELSE Derived("NestedNameLoop", <<S.p, st, S.n>>)
    ELSE Step(Derived("parseUnqualifiedName", <<p, st, SoFar>>))

\* parseClassEnumType: <class-enum-type> ::= [Ts | Tu | Te] <name>
parseClassEnumType(p) ==
    LET ElabSpef == IF consumeIfOk(p, "Ts") THEN "struct"
                    ELSE IF consumeIfOk(p, "Tu") THEN "union"
                    ELSE IF consumeIfOk(p, "Te") THEN "enum"
                    ELSE ""
        p1 == IF ElabSpef # "" THEN Advance(p, 2) ELSE p
        Name == Derived("parseName", <<p1, NoState>>)
    IN
    IF Name.n = NullPtr THEN Ret(NullPtr, Name.p)
    ELSE IF ElabSpef # ""
    THEN make(Name.p, Tagged("ElaboratedTypeSpefType", ElabSpef, Name.n))
    ELSE Ret(Name.n, Name.p)

\* parseQualifiedType: <qualified-type> ::= <qualifiers> <type>.  Vendor
\* extended qualifiers (U) are not modelled.
parseQualifiedType(p) ==
    IF consumeIfOk(p, "U")
    THEN LET q == Derived("parseBareSourceName", <<consumeIf(p, "U")>>)
             Qual == q.v
         IN
         IF Qual = "" THEN Fail(q.p)
         ELSE IF startsWith(Qual, "objcproto")
         THEN LET \* ScopedOverride SaveFirst(First, ProtoSourceName.begin()),
                  \* SaveLast(Last, ProtoSourceName.end())
                  w == Derived("parseBareSourceName",
                               <<[q.p EXCEPT !.First = q.p.First - Len(Qual) + Len("objcproto"),
                                             !.Last = q.p.First]>>)
                  Proto == w.v
                  p1 == [w.p EXCEPT !.First = q.p.First, !.Last = q.p.Last]
              IN IF Proto = "" THEN Fail(p1)
                 ELSE LET Child == Derived("parseQualifiedType", <<p1>>) IN
                      IF Child.n = NullPtr THEN Ret(NullPtr, Child.p)
                      ELSE make(Child.p, Tagged("ObjCProtoName", Proto, Child.n))
         ELSE LET TA == IF look(q.p, 0) = "I"
                        THEN Derived("parseTemplateArgs", <<q.p, FALSE>>)
                        ELSE Ret(NullPtr, q.p)
              IN IF look(q.p, 0) = "I" /\ TA.n = NullPtr THEN TA
                 ELSE LET Child == Derived("parseQualifiedType", <<TA.p>>) IN
                      IF Child.n = NullPtr THEN Ret(NullPtr, Child.p)
                      ELSE make(Child.p, [Tagged("VendorExtQualType", Qual, Child.n)
                                             EXCEPT !.B = TA.n])
    ELSE
    LET q == Derived("parseCVQualifiers", <<p>>)
        Ty == Derived("parseType", <<q.p>>)
    IN
    IF Ty.n = NullPtr THEN Ret(NullPtr, Ty.p)
    ELSE IF q.v # QualNone THEN make(Ty.p, QualType(Ty.p.Arena, Ty.n, q.v))
    ELSE Ret(Ty.n, Ty.p)

\* parseType: the node, the parser, and whether the switch returned the node
\* itself (direct) instead of breaking to the substitution insertion
TypeDispatch(p) ==
    LET c == look(p, 0)
        R(r, direct) == [n |-> r.n, p |-> r.p, direct |-> direct]
        AQ1 == IF look(p, 0) = "r" THEN 1 ELSE 0
        AQ2 == IF look(p, AQ1) = "V" THEN AQ1 + 1 ELSE AQ1
        AfterQuals == IF look(p, AQ2) = "K" THEN AQ2 + 1 ELSE AQ2
        \* P, R, O, C, G <type>
        Prefixed(mk(_, _)) ==
            LET t == Derived("parseType", <<Advance(p, 1)>>) IN
            IF t.n = NullPtr THEN R(t, TRUE)
            ELSE R(make(t.p, mk(t.p.Arena, t.n)), FALSE)
        Ptr(Arena, x) == PointerType(Arena, x)
        LRef(Arena, x) == ReferenceType(Arena, x, "LValue")
        RRef(Arena, x) == ReferenceType(Arena, x, "RValue")
        Cplx(Arena, x) == Tagged("PostfixQualifiedType", " complex", x)
        Imag(Arena, x) == Tagged("PostfixQualifiedType", " imaginary", x)
    IN
    IF c \in {"r", "V", "K"}
    THEN IF \/ look(p, AfterQuals) = "F"
            \/ /\ look(p, AfterQuals) = "D"
               /\ look(p, AfterQuals + 1) \in {"o", "O", "w", "x"}
         THEN R(Unmodelled(p), FALSE)
         ELSE R(Derived("parseQualifiedType", <<p>>), FALSE)
    ELSE IF c = "U" THEN R(Derived("parseQualifiedType", <<p>>), FALSE)
    ELSE IF BuiltinType(c) # ""
    THEN R(make(Advance(p, 1), NameType(BuiltinType(c))), TRUE)
    ELSE IF c = "u"
    THEN LET Res == Derived("parseBareSourceName", <<Advance(p, 1)>>) IN
         IF Res.v = "" THEN R(Fail(Res.p), TRUE)
         ELSE R(make(Res.p, NameType(Res.v)), FALSE)
    ELSE IF c = "D"
    THEN LET d == look(p, 1) IN
         IF d \in {"B", "U", "t", "T", "v", "o", "O", "w", "x"}
         THEN R(Unmodelled(p), FALSE)
         ELSE IF BuiltinTypeD(d) # ""
         THEN R(make(Advance(p, 2), NameType(BuiltinTypeD(d))), TRUE)
         ELSE IF d = "p"
         THEN LET Child == Derived("parseType", <<Advance(p, 2)>>) IN
              IF Child.n = NullPtr THEN R(Child, TRUE)
              ELSE R(make(Child.p, Unary("ParameterPackExpansion", Child.n)), FALSE)
         ELSE R(Fail(p), FALSE)
    ELSE IF c \in {"F", "A", "M"} THEN R(Unmodelled(p), FALSE)
    ELSE IF c = "T"
    THEN IF look(p, 1) \in {"s", "u", "e"} THEN R(Derived("parseClassEnumType", <<p>>), FALSE)
         ELSE LET t == Derived("parseTemplateParam", <<p>>) IN
              IF t.n = NullPtr THEN R(t, TRUE)
              ELSE IF t.p.TryToParseTemplateArgs /\ look(t.p, 0) = "I"
              THEN LET TA == Derived("parseTemplateArgs", <<t.p, FALSE>>) IN
                   IF TA.n = NullPtr THEN R(TA, TRUE)
                   ELSE R(make(TA.p, Binary("NameWithTemplateArgs", t.n, TA.n)), FALSE)
              ELSE R(t, FALSE)
    ELSE IF c = "P" THEN Prefixed(Ptr)
    ELSE IF c = "R" THEN Prefixed(LRef)
    ELSE IF c = "O" THEN Prefixed(RRef)
    ELSE IF c = "C" THEN Prefixed(Cplx)
    ELSE IF c = "G" THEN Prefixed(Imag)
    ELSE IF c = "S" /\ look(p, 1) # "t"
    THEN LET u == Derived("parseUnscopedName", <<p, NoState, TRUE>>) IN
         IF u.n = NullPtr THEN R(u, TRUE)
         ELSE IF look(u.p, 0) = "I" /\ (~u.IsSubst \/ u.p.TryToParseTemplateArgs)
         THEN LET p1 == IF ~u.IsSubst THEN PushSub(u.p, u.n) ELSE u.p
                  TA == Derived("parseTemplateArgs", <<p1, FALSE>>)
              IN IF TA.n = NullPtr THEN R(TA, TRUE)
                 ELSE R(make(TA.p, Binary("NameWithTemplateArgs", u.n, TA.n)), FALSE)
         ELSE R(u, u.IsSubst)
    ELSE R(Derived("parseClassEnumType", <<p>>), FALSE)

\* parseType as it would be if the builtin cases left the switch with
\* break, as the vendor extended builtin does, instead of returning
parseType_pushesBuiltins(p) ==
    LET r == Derived("TypeDispatch", <<p>>)
        code == IF look(p, 0) = "D" THEN "D" \o look(p, 1) ELSE look(p, 0)
        Returns(q) == Ret(r.n, Traced(q, "type", r.n, Len(p.Subs), code))
        builtin == BuiltinType(look(p, 0)) # "" \/ (look(p, 0) = "D" /\ BuiltinTypeD(look(p, 1)) # "")
    IN
    IF r.n # NullPtr /\ (~r.direct \/ builtin) THEN Returns(PushSub(r.p, r.n))
    ELSE Returns(r.p)

\* parseType: a parsed type goes into the substitution table unless the
\* switch returned it directly
parseType(p) ==
    LET r == Derived("TypeDispatch", <<p>>)
        code == IF look(p, 0) = "D" THEN "D" \o look(p, 1) ELSE look(p, 0)
        Returns(q) == Ret(r.n, Traced(q, "type", r.n, Len(p.Subs), code))
    IN
    IF r.n # NullPtr /\ ~r.direct THEN Returns(PushSub(r.p, r.n))
    ELSE Returns(r.p)

\* parseSpecialName.  Module initializers (GI) are not modelled.
parseSpecialName(p) ==
    LET c1 == look(p, 1)
        p2 == Advance(p, 2)
        Special(r, Str) == IF r.n = NullPtr THEN Ret(NullPtr, r.p)
                           ELSE make(r.p, Tagged("SpecialName", Str, r.n))
        Drop(r) == Ret(r.n, r.p)
    IN
    IF look(p, 0) = "T"
    THEN IF c1 = "A" THEN Special(Derived("parseTemplateArg", <<p2>>), "template parameter object for ")
         ELSE IF c1 = "V" THEN Special(Derived("parseType", <<p2>>), "vtable for ")
         ELSE IF c1 = "T" THEN Special(Derived("parseType", <<p2>>), "VTT for ")
         ELSE IF c1 = "I" THEN Special(Derived("parseType", <<p2>>), "typeinfo for ")
         ELSE IF c1 = "S" THEN Special(Derived("parseType", <<p2>>), "typeinfo name for ")
         ELSE IF c1 = "c"
         THEN LET o1 == Derived("parseCallOffset", <<p2>>) IN
              IF o1.err THEN Fail(o1.p)
              ELSE LET o2 == Derived("parseCallOffset", <<o1.p>>) IN
                   IF o2.err THEN Fail(o2.p)
                   ELSE Special(Derived("parseEncoding", <<o2.p>>), "covariant return thunk to ")
         ELSE IF c1 = "C"
         THEN LET FirstType == Derived("parseType", <<p2>>) IN
              IF FirstType.n = NullPtr THEN FirstType
              ELSE LET num == Derived("parseNumber", <<FirstType.p, TRUE>>) IN
                   IF num.v = "" THEN Fail(num.p)
                   ELSE IF ~consumeIfOk(num.p, "_") THEN Fail(num.p)
                   ELSE LET SecondType == Derived("parseType", <<consumeIf(num.p, "_")>>) IN
                        IF SecondType.n = NullPtr THEN SecondType
                        ELSE make(SecondType.p,
                                  Binary("CtorVtableSpecialName", SecondType.n,
                                         FirstType.n))
         ELSE IF c1 = "W"
         THEN Special(Drop(Derived("parseName", <<p2, NoState>>)), "thread-local wrapper routine for ")
         ELSE IF c1 = "H"
         THEN Special(Drop(Derived("parseName", <<p2, NoState>>)),
                      "thread-local initialization routine for ")
         ELSE LET p1 == Advance(p, 1)
                  IsVirt == look(p1, 0) = "v"
                  o == Derived("parseCallOffset", <<p1>>)
              IN IF o.err THEN Fail(o.p)
                 ELSE Special(Derived("parseEncoding", <<o.p>>),
                              IF IsVirt THEN "virtual thunk to "
                              ELSE "non-virtual thunk to ")
    ELSE IF look(p, 0) = "G"
    THEN IF c1 = "V" THEN Special(Drop(Derived("parseName", <<p2, NoState>>)), "guard variable for ")
         ELSE IF c1 = "R"
         THEN LET Name == Derived("parseName", <<p2, NoState>>) IN
              IF Name.n = NullPtr THEN Drop(Name)
              ELSE LET s == Derived("parseSeqId", <<Name.p>>)
                       ParsedSeqId == ~s.err
                   IN IF ~consumeIfOk(s.p, "_") /\ ParsedSeqId THEN Fail(s.p)
                      ELSE make(consumeIf(s.p, "_"),
                                Tagged("SpecialName", "reference temporary for ", Name.n))
         ELSE IF c1 = "I" THEN Unmodelled(p2)
         ELSE Fail(p)
    ELSE Fail(p)

\* IsEndOfEncoding of parseEncoding
IsEndOfEncoding(p) == numLeft(p) = 0 \/ look(p, 0) \in {"E", ".", "_"}

\* while (!consumeIf('E')) { Arg = parseTemplateArg(); ...; Names.push_back(Arg); }
TemplateArgLoop(p) ==
    IF consumeIfOk(p, "E") THEN [ok |-> TRUE, p |-> consumeIf(p, "E")]
    ELSE LET Arg == Derived("parseTemplateArg", <<p>>) IN
         IF Arg.n = NullPtr THEN [ok |-> FALSE, p |-> Arg.p]
         ELSE Derived("TemplateArgLoop", <<PushName(Arg.p, Arg.n)>>)

\* do { Ty = parseType(); ...; Names.push_back(Ty); } while (!IsEndOfEncoding());
EncodingParams(p) ==
    LET Ty == Derived("parseType", <<p>>) IN
    IF Ty.n = NullPtr THEN [ok |-> FALSE, p |-> Ty.p]
    ELSE LET p1 == PushName(Ty.p, Ty.n) IN
         IF IsEndOfEncoding(p1) THEN [ok |-> TRUE, p |-> p1] ELSE Derived("EncodingParams", <<p1>>)

\* parseEncoding after SaveTemplateParams has been constructed
EncodingBody(p) ==
    IF look(p, 0) = "G" \/ look(p, 0) = "T" THEN Derived("parseSpecialName", <<p>>)
    ELSE
    LET Name == Derived("parseName", <<p, NameState(p)>>) IN
    IF Name.n = NullPtr THEN Ret(NullPtr, Name.p)
    ELSE
    LET NameInfo == Name.ns
        rs == Derived("resolveForwardTemplateRefs", <<Name.p, NameInfo>>)
    IN
    IF rs.err THEN Fail(rs.p)
    ELSE IF IsEndOfEncoding(rs.p) THEN Ret(Name.n, rs.p)
    ELSE
    LET hasAttrs == consumeIfOk(rs.p, "Ua9enable_ifI")
        BeforeArgs == Len(rs.p.Names)
        al == IF hasAttrs THEN Derived("TemplateArgLoop", <<consumeIf(rs.p, "Ua9enable_ifI")>>)
              ELSE [ok |-> TRUE, p |-> rs.p]
    IN
    IF ~al.ok THEN Fail(al.p)
    ELSE
    LET at == IF hasAttrs
              THEN make(popTrailingNodeArray(al.p, BeforeArgs),
                        ArrayNode("EnableIfAttr", TrailingNodeArray(al.p, BeforeArgs)))
              ELSE Ret(NullPtr, al.p)
        Attrs == at.n
        rt == IF ~NameInfo.CtorDtorConversion /\ NameInfo.EndsWithTemplateArgs
              THEN Derived("parseType", <<at.p>>)
              ELSE Ret(NullPtr, at.p)
        ReturnType == rt.n
    IN
    IF ~NameInfo.CtorDtorConversion /\ NameInfo.EndsWithTemplateArgs
       /\ ReturnType = NullPtr
    THEN Ret(NullPtr, rt.p)
    ELSE IF consumeIfOk(rt.p, "v")
    THEN make(consumeIf(rt.p, "v"),
              FunctionEncoding(ReturnType, Name.n, <<>>, Attrs,
                               NameInfo.CVQualifiers, NameInfo.ReferenceQualifier))
    ELSE
    LET ParamsBegin == Len(rt.p.Names)
        ps == Derived("EncodingParams", <<rt.p>>)
    IN
    IF ~ps.ok THEN Ret(NullPtr, ps.p)
    ELSE make(popTrailingNodeArray(ps.p, ParamsBegin),
              FunctionEncoding(ReturnType, Name.n, TrailingNodeArray(ps.p, ParamsBegin),
                               Attrs, NameInfo.CVQualifiers,
                               NameInfo.ReferenceQualifier))

\* parseEncoding: SaveTemplateParams empties the two template-parameter
\* tables for the encoding and puts the old ones back on every exit
parseEncoding(p) ==
    LET r == Derived("EncodingBody", <<[p EXCEPT !.TemplateParams = <<>>,
                                    !.OuterTemplateParams = <<>>]>>)
    IN Ret(r.n, [r.p EXCEPT !.TemplateParams = p.TemplateParams,
                            !.OuterTemplateParams = p.OuterTemplateParams])

(***************************************************************************)
(* Expressions                                                             *)
(***************************************************************************)
PrefixExpr(Prefix, Child, Prec_) == [Tagged("PrefixExpr", Prefix, Child) EXCEPT !.Prec = Prec_]

PostfixExpr(Child, Operator, Prec_) ==
    [Tagged("PostfixExpr", Operator, Child) EXCEPT !.Prec = Prec_]

BinaryExpr(LHS, InfixOperator, RHS, Prec_) ==
    [Binary("BinaryExpr", LHS, RHS) EXCEPT !.S = InfixOperator, !.Prec = Prec_]

ConditionalExpr(Cond, Then, Else, Prec_) ==
    [Binary("ConditionalExpr", Cond, Then) EXCEPT !.C = Else, !.Prec = Prec_]

ConversionExpr(Type, Expressions, Prec_) ==
    [ArrayNode("ConversionExpr", Expressions) EXCEPT !.A = Type, !.Prec = Prec_]

IntegerLiteral(Type, Value) == [Node("IntegerLiteral") EXCEPT !.S = Type, !.Value = Value]

BoolExpr(Value) == [Node("BoolExpr") EXCEPT !.F = Value]

\* The cases of parseExprPrimary that end in parseIntegerLiteral, and the
\* literal suffix or type each hands over
IntegerLiteralTypes ==
    [w |-> "wchar_t", c |-> "char", a |-> "signed char", h |-> "unsigned char",
     s |-> "short", t |-> "unsigned short", i |-> "", j |-> "u", l |-> "l",
     m |-> "ul", x |-> "ll", y |-> "ull", n |-> "__int128",
     o |-> "unsigned __int128"]

parseIntegerLiteral(p, Lit) ==
    LET Tmp == parseNumber(p, TRUE) IN
    IF Tmp.v # "" /\ consumeIfOk(Tmp.p, "E")
    THEN make(consumeIf(Tmp.p, "E"), IntegerLiteral(Lit, Tmp.v))
    ELSE Fail(Tmp.p)

\* parseExprPrimary; an encoding (L_Z), a string literal, a lambda and an
\* enumerator are not modelled
parseExprPrimary(p) ==
    IF ~consumeIfOk(p, "L") THEN Fail(p)
    ELSE LET p1 == consumeIf(p, "L")
             c == look(p1, 0)
         IN IF c \in DOMAIN IntegerLiteralTypes
            THEN parseIntegerLiteral(Advance(p1, 1), IntegerLiteralTypes[c])
            ELSE IF c = "b"
            THEN IF consumeIfOk(p1, "b0E") THEN make(consumeIf(p1, "b0E"), BoolExpr(FALSE))
                 ELSE IF consumeIfOk(p1, "b1E") THEN make(consumeIf(p1, "b1E"), BoolExpr(TRUE))
                 ELSE Fail(p1)
            ELSE IF c = "D"
            THEN IF ~consumeIfOk(p1, "Dn") THEN Fail(p1)
                 ELSE LET p2 == consumeIf(consumeIf(p1, "Dn"), "0") IN
                      IF consumeIfOk(p2, "E") THEN make(consumeIf(p2, "E"), NameType("nullptr"))
                      ELSE Fail(p2)
            ELSE IF c = "T" THEN Fail(p1)
            ELSE Unmodelled(p1)

parsePrefixExpr(p, Kind, Prec_) ==
    LET E == Derived("parseExpr", <<p>>) IN
    IF E.n = NullPtr THEN E ELSE make(E.p, PrefixExpr(Kind, E.n, Prec_))

parseBinaryExpr(p, Kind, Prec_) ==
    LET LHS == Derived("parseExpr", <<p>>) IN
    IF LHS.n = NullPtr THEN LHS
    ELSE LET RHS == Derived("parseExpr", <<LHS.p>>) IN
         IF RHS.n = NullPtr THEN RHS
         ELSE make(RHS.p, BinaryExpr(LHS.n, Kind, RHS.n, Prec_))

\* while (!consumeIf('E')) of the C-cast case of parseExpr
ConversionExprLoop(p, IsMany) ==
    IF consumeIfOk(p, "E") THEN [ok |-> TRUE, p |-> consumeIf(p, "E")]
    ELSE LET E == Derived("parseExpr", <<p>>) IN
         IF E.n = NullPtr THEN [ok |-> FALSE, p |-> E.p]
         ELSE IF ~IsMany THEN [ok |-> TRUE, p |-> PushName(E.p, E.n)]
         ELSE Derived("ConversionExprLoop", <<PushName(E.p, E.n), IsMany>>)

\* case OperatorInfo::CCast of parseExpr, entered after the encoding cv
parseExprCCast(p, O) ==
    LET Ty == Derived("parseType", <<[p EXCEPT !.TryToParseTemplateArgs = FALSE]>>)
        \* SaveTemp goes out of scope before Ty is tested
        p1 == [Ty.p EXCEPT !.TryToParseTemplateArgs = p.TryToParseTemplateArgs]
        Returns(r) == Ret(r.n, TracedFlags(r.p, p, "ccast", r.n))
    IN IF Ty.n = NullPtr THEN Returns(Ret(NullPtr, p1))
       ELSE LET ExprsBegin == Len(p1.Names)
                IsMany == consumeIfOk(p1, "_")
                l == Derived("ConversionExprLoop", <<consumeIf(p1, "_"), IsMany>>)
                Exprs == TrailingNodeArray(l.p, ExprsBegin)
            IN IF ~l.ok THEN Returns(Ret(NullPtr, l.p))
               ELSE IF ~IsMany /\ Len(Exprs) # 1
               THEN Returns(Fail(popTrailingNodeArray(l.p, ExprsBegin)))
               ELSE Returns(make(popTrailingNodeArray(l.p, ExprsBegin),
                                 ConversionExpr(Ty.n, Exprs, O.Prec)))

\* parseExpr.  Of the kinds of operator, subscript, member access, new,
\* delete, call, the named casts and sizeof/alignof/typeid are not
\* modelled; of the expressions without an operator encoding, only the
\* primary expressions, the template parameters and sp are
parseExpr(p) ==
    LET p0 == consumeIf(p, "gs")
        e == Derived("parseOperatorEncoding", <<p0>>)
    IN
    IF e.op # 0
    THEN LET O == Ops[e.op]
             Sym == getSymbol(O)
         IN CASE O.Kind = "Binary" -> Derived("parseBinaryExpr", <<e.p, Sym, O.Prec>>)
              [] O.Kind = "Prefix" -> Derived("parsePrefixExpr", <<e.p, Sym, O.Prec>>)
              [] O.Kind = "Postfix" ->
                    IF consumeIfOk(e.p, "_")
                    THEN Derived("parsePrefixExpr", <<consumeIf(e.p, "_"), Sym, O.Prec>>)
                    ELSE LET Ex == Derived("parseExpr", <<e.p>>) IN
                         IF Ex.n = NullPtr THEN Ex
                         ELSE make(Ex.p, PostfixExpr(Ex.n, Sym, O.Prec))
              [] O.Kind = "CCast" -> parseExprCCast(e.p, O)
              [] O.Kind = "Conditional" ->
                    LET Cond == Derived("parseExpr", <<e.p>>) IN
                    IF Cond.n = NullPtr THEN Cond
                    ELSE LET LHS == Derived("parseExpr", <<Cond.p>>) IN
                         IF LHS.n = NullPtr THEN LHS
                         ELSE LET RHS == Derived("parseExpr", <<LHS.p>>) IN
                              IF RHS.n = NullPtr THEN RHS
                              ELSE make(RHS.p, ConditionalExpr(Cond.n, LHS.n, RHS.n, O.Prec))
              [] O.Kind = "NameOnly" -> Fail(e.p)
              [] OTHER -> Unmodelled(e.p)
    ELSE IF numLeft(p0) < 2 THEN Fail(p0)
    ELSE IF look(p0, 0) = "L" THEN Derived("parseExprPrimary", <<p0>>)
    ELSE IF look(p0, 0) = "T" THEN Derived("parseTemplateParam", <<p0>>)
    ELSE IF consumeIfOk(p0, "sp")
    THEN LET Child == Derived("parseExpr", <<consumeIf(p0, "sp")>>) IN
         IF Child.n = NullPtr THEN Child
         ELSE make(Child.p, Unary("ParameterPackExpansion", Child.n))
    ELSE Unmodelled(p0)

\* parseTemplateArg.  Expressions (X, L other than LZ) are not modelled.
parseTemplateArg(p) ==
    IF look(p, 0) = "X"
    THEN LET Arg == Derived("parseExpr", <<Advance(p, 1)>>) IN
         IF Arg.n = NullPtr THEN Arg
         ELSE IF ~consumeIfOk(Arg.p, "E") THEN Fail(Arg.p)
         ELSE Ret(Arg.n, consumeIf(Arg.p, "E"))
    ELSE IF look(p, 0) = "J"
    THEN LET p1 == Advance(p, 1)
             ArgsBegin == Len(p1.Names)
             l == Derived("TemplateArgLoop", <<p1>>)
         IN IF ~l.ok THEN Ret(NullPtr, l.p)
            ELSE make(popTrailingNodeArray(l.p, ArgsBegin),
                      ArrayNode("TemplateArgumentPack", TrailingNodeArray(l.p, ArgsBegin)))
    ELSE IF look(p, 0) = "L"
    THEN IF look(p, 1) = "Z"
         THEN LET Arg == Derived("parseEncoding", <<Advance(p, 2)>>) IN
              IF Arg.n = NullPtr THEN Arg
              ELSE IF ~consumeIfOk(Arg.p, "E") THEN Fail(Arg.p)
              ELSE Ret(Arg.n, consumeIf(Arg.p, "E"))
         ELSE Derived("parseExprPrimary", <<p>>)
    ELSE Derived("parseType", <<p>>)

\* One more event in the trace for a successful return r of
\* parseTemplateArgs: the TemplateArgs node, the flag it was called with
\* and the template-parameter table it leaves
TracedArgs(r, TagTemplates) ==
    [r EXCEPT !.p.trace = Append(@, [e |-> "targs", n |-> r.n, Index |-> 0,
                                     Size |-> Len(r.p.Subs), id |-> "",
                                     TagTemplates |-> TagTemplates,
                                     TemplateParams |-> r.p.TemplateParams,
                                     OuterTemplateParams |-> r.p.OuterTemplateParams])]

\* The loop of parseTemplateArgs as it would be if the table entry of an
\* argument pack were the TemplateArgumentPack itself
TemplateArgsLoop_packAsIs(p, TagTemplates) ==
    IF consumeIfOk(p, "E") THEN [ok |-> TRUE, p |-> consumeIf(p, "E")]
    ELSE IF TagTemplates
    THEN LET OldParams == p.TemplateParams
             Arg == Derived("parseTemplateArg", <<[p EXCEPT !.TemplateParams = <<>>]>>)
             p1 == [Arg.p EXCEPT !.TemplateParams = OldParams]
         IN IF Arg.n = NullPtr THEN [ok |-> FALSE, p |-> p1]
            ELSE Derived("TemplateArgsLoop", <<
                     [PushName(p1, Arg.n) EXCEPT !.OuterTemplateParams = Append(@, Arg.n)],
                     TagTemplates>>)
    ELSE LET Arg == Derived("parseTemplateArg", <<p>>) IN
         IF Arg.n = NullPtr THEN [ok |-> FALSE, p |-> Arg.p]
         ELSE Derived("TemplateArgsLoop", <<PushName(Arg.p, Arg.n), TagTemplates>>)

\* The loop of parseTemplateArgs
TemplateArgsLoop(p, TagTemplates) ==
    IF consumeIfOk(p, "E") THEN [ok |-> TRUE, p |-> consumeIf(p, "E")]
    ELSE IF TagTemplates
    THEN LET OldParams == p.TemplateParams
             Arg == Derived("parseTemplateArg", <<[p EXCEPT !.TemplateParams = <<>>]>>)
             p1 == [Arg.p EXCEPT !.TemplateParams = OldParams]
         IN IF Arg.n = NullPtr THEN [ok |-> FALSE, p |-> p1]
            ELSE LET p2 == PushName(p1, Arg.n)
                     te == IF p2.Arena[Arg.n].K = "TemplateArgumentPack"
                           THEN make(p2, ParameterPack(p2.Arena, p2.Arena[Arg.n].L))
                           ELSE Ret(Arg.n, p2)
                 \* TemplateParams.back() is &OuterTemplateParams here
                 IN Derived("TemplateArgsLoop", <<
                        [te.p EXCEPT !.OuterTemplateParams = Append(@, te.n)],
                        TagTemplates>>)
    ELSE LET Arg == Derived("parseTemplateArg", <<p>>) IN
         IF Arg.n = NullPtr THEN [ok |-> FALSE, p |-> Arg.p]
         ELSE Derived("TemplateArgsLoop", <<PushName(Arg.p, Arg.n), TagTemplates>>)

\* parseTemplateArgs: <template-args> ::= I <template-arg>* E
parseTemplateArgs(p, TagTemplates) ==
    IF ~consumeIfOk(p, "I") THEN Fail(p)
    ELSE
    LET p0 == consumeIf(p, "I")
        p1 == IF TagTemplates
              THEN [p0 EXCEPT !.TemplateParams = <<1>>, !.OuterTemplateParams = <<>>]
              ELSE p0
        ArgsBegin == Len(p1.Names)
        l == Derived("TemplateArgsLoop", <<p1, TagTemplates>>)
    IN
    IF ~l.ok THEN Ret(NullPtr, l.p)
    ELSE TracedArgs(make(popTrailingNodeArray(l.p, ArgsBegin),
                         ArrayNode("TemplateArgs", TrailingNodeArray(l.p, ArgsBegin))),
                    TagTemplates)

\* parse as it would be if the <type> form forgot the numLeft() != 0 test
parse_ignoresTrailing(p) ==
    IF consumeIfOk(p, "_Z") \/ consumeIfOk(p, "__Z")
    THEN LET p1 == IF consumeIfOk(p, "_Z") THEN consumeIf(p, "_Z") ELSE consumeIf(p, "__Z")
             Encoding == TopEnd(Derived("parseEncoding", <<TopBegin(p1, "encoding")>>))
         IN IF Encoding.n = NullPtr THEN Encoding
            ELSE LET d == IF look(Encoding.p, 0) = "."
                          THEN make([Encoding.p EXCEPT !.First = p.Last],
                                    Tagged("DotSuffix", Rest(Encoding.p), Encoding.n))
                          ELSE Encoding
                 IN IF numLeft(d.p) # 0 THEN Fail(d.p) ELSE d
    ELSE IF consumeIfOk(p, "___Z") \/ consumeIfOk(p, "____Z")
    THEN LET p1 == IF consumeIfOk(p, "___Z") THEN consumeIf(p, "___Z")
                   ELSE consumeIf(p, "____Z")
             Encoding == TopEnd(Derived("parseEncoding", <<TopBegin(p1, "encoding")>>))
         IN IF Encoding.n = NullPtr THEN Encoding
            ELSE IF ~consumeIfOk(Encoding.p, "_block_invoke") THEN Fail(Encoding.p)
            ELSE LET p2 == consumeIf(Encoding.p, "_block_invoke")
                     RequireNumber == consumeIfOk(p2, "_")
                     num == Derived("parseNumber", <<consumeIf(p2, "_"), FALSE>>)
                 IN IF num.v = "" /\ RequireNumber THEN Fail(num.p)
                    ELSE LET p3 == IF look(num.p, 0) = "."
                                   THEN [num.p EXCEPT !.First = p.Last]
                                   ELSE num.p
                         IN IF numLeft(p3) # 0 THEN Fail(p3)
                            ELSE make(p3, Tagged("SpecialName",
                                                 "invocation function for block in ",
                                                 Encoding.n))
    ELSE TopEnd(Derived("parseType", <<TopBegin(p, "type")>>))

\* parse as it would be if consumeIf("__Z") were missing from the first test
parse_singleUnderscoreOnly(p) ==
    IF consumeIfOk(p, "_Z")
    THEN LET p1 == consumeIf(p, "_Z")
             Encoding == TopEnd(Derived("parseEncoding", <<TopBegin(p1, "encoding")>>))
         IN IF Encoding.n = NullPtr THEN Encoding
            ELSE LET d == IF look(Encoding.p, 0) = "."
                          THEN make([Encoding.p EXCEPT !.First = p.Last],
                                    Tagged("DotSuffix", Rest(Encoding.p), Encoding.n))
                          ELSE Encoding
                 IN IF numLeft(d.p) # 0 THEN Fail(d.p) ELSE d
    ELSE IF consumeIfOk(p, "___Z") \/ consumeIfOk(p, "____Z")
    THEN LET p1 == IF consumeIfOk(p, "___Z") THEN consumeIf(p, "___Z")
                   ELSE consumeIf(p, "____Z")
             Encoding == TopEnd(Derived("parseEncoding", <<TopBegin(p1, "encoding")>>))
         IN IF Encoding.n = NullPtr THEN Encoding
            ELSE IF ~consumeIfOk(Encoding.p, "_block_invoke") THEN Fail(Encoding.p)
            ELSE LET p2 == consumeIf(Encoding.p, "_block_invoke")
                     RequireNumber == consumeIfOk(p2, "_")
                     num == Derived("parseNumber", <<consumeIf(p2, "_"), FALSE>>)
                 IN IF num.v = "" /\ RequireNumber THEN Fail(num.p)
                    ELSE LET p3 == IF look(num.p, 0) = "."
                                   THEN [num.p EXCEPT !.First = p.Last]
                                   ELSE num.p
                         IN IF numLeft(p3) # 0 THEN Fail(p3)
                            ELSE make(p3, Tagged("SpecialName",
                                                 "invocation function for block in ",
                                                 Encoding.n))
    ELSE LET Ty == TopEnd(Derived("parseType", <<TopBegin(p, "type")>>)) IN
         IF numLeft(Ty.p) # 0 THEN Fail(Ty.p) ELSE Ty

\* parse: the top-level entry point
\* <mangled-name> ::= _Z <encoding> | <type>, with the block-invocation
\* extension ___Z <encoding> _block_invoke[_<number>]
parse(p) ==
    IF consumeIfOk(p, "_Z") \/ consumeIfOk(p, "__Z")
    THEN LET p1 == IF consumeIfOk(p, "_Z") THEN consumeIf(p, "_Z") ELSE consumeIf(p, "__Z")
             Encoding == TopEnd(Derived("parseEncoding", <<TopBegin(p1, "encoding")>>))
         IN IF Encoding.n = NullPtr THEN Encoding
            ELSE LET d == IF look(Encoding.p, 0) = "."
                          THEN make([Encoding.p EXCEPT !.First = p.Last],
                                    Tagged("DotSuffix", Rest(Encoding.p), Encoding.n))
                          ELSE Encoding
                 IN IF numLeft(d.p) # 0 THEN Fail(d.p) ELSE d
    ELSE IF consumeIfOk(p, "___Z") \/ consumeIfOk(p, "____Z")
    THEN LET p1 == IF consumeIfOk(p, "___Z") THEN consumeIf(p, "___Z")
                   ELSE consumeIf(p, "____Z")
             Encoding == TopEnd(Derived("parseEncoding", <<TopBegin(p1, "encoding")>>))
         IN IF Encoding.n = NullPtr THEN Encoding
            ELSE IF ~consumeIfOk(Encoding.p, "_block_invoke") THEN Fail(Encoding.p)
            ELSE LET p2 == consumeIf(Encoding.p, "_block_invoke")
                     RequireNumber == consumeIfOk(p2, "_")
                     num == Derived("parseNumber", <<consumeIf(p2, "_"), FALSE>>)
                 IN IF num.v = "" /\ RequireNumber THEN Fail(num.p)
                    ELSE LET p3 == IF look(num.p, 0) = "."
                                   THEN [num.p EXCEPT !.First = p.Last]
                                   ELSE num.p
                         IN IF numLeft(p3) # 0 THEN Fail(p3)
                            ELSE make(p3, Tagged("SpecialName",
                                                 "invocation function for block in ",
                                                 Encoding.n))
    ELSE LET Ty == TopEnd(Derived("parseType", <<TopBegin(p, "type")>>)) IN
         IF numLeft(Ty.p) # 0 THEN Fail(Ty.p) ELSE Ty

\* The node parse() has returned to its caller
Returned(r) == [r EXCEPT !.p.root = r.n]

\* getDerived().f(a...): every call of a production goes through the
\* derived parser, which here has the productions above
Derived(f, a) ==
    CASE f = "parseName" -> parseName(a[1], a[2])
      [] f = "parseLocalName" -> parseLocalName(a[1], a[2])
      [] f = "parseUnscopedName" -> parseUnscopedName(a[1], a[2], a[3])
      [] f = "parseUnqualifiedName" -> parseUnqualifiedName(a[1], a[2], a[3])
      [] f = "parseOperatorName" -> parseOperatorName(a[1], a[2])
      [] f = "parseCtorDtorName" -> parseCtorDtorName(a[1], a[2], a[3])
      [] f = "parseNestedName" -> parseNestedName(a[1], a[2])
      [] f = "NestedNameLoop" -> NestedNameLoop(a[1], a[2], a[3])
      [] f = "parseType" -> parseType(a[1])
      [] f = "TypeDispatch" -> TypeDispatch(a[1])
      [] f = "parseClassEnumType" -> parseClassEnumType(a[1])
      [] f = "parseQualifiedType" -> parseQualifiedType(a[1])
      [] f = "parseEncoding" -> parseEncoding(a[1])
      [] f = "EncodingBody" -> EncodingBody(a[1])
      [] f = "EncodingParams" -> EncodingParams(a[1])
      [] f = "parseSpecialName" -> parseSpecialName(a[1])
      [] f = "parseTemplateArg" -> parseTemplateArg(a[1])
      [] f = "TemplateArgLoop" -> TemplateArgLoop(a[1])
      [] f = "parseTemplateArgs" -> parseTemplateArgs(a[1], a[2])
      [] f = "TemplateArgsLoop" -> TemplateArgsLoop(a[1], a[2])
      [] f = "parseExpr" -> parseExpr(a[1])
      [] f = "parseExprPrimary" -> parseExprPrimary(a[1])
      [] f = "parseBinaryExpr" -> parseBinaryExpr(a[1], a[2], a[3])
      [] f = "parsePrefixExpr" -> parsePrefixExpr(a[1], a[2], a[3])
      [] f = "ConversionExprLoop" -> ConversionExprLoop(a[1], a[2])
      [] f = "parse" -> Returned(parse(a[1]))
      [] f = "parseNumber" -> parseNumber(a[1], a[2])
      [] f = "parsePositiveInteger" -> parsePositiveInteger(a[1])
      [] f = "parseBareSourceName" -> parseBareSourceName(a[1])
      [] f = "parseCVQualifiers" -> parseCVQualifiers(a[1])
      [] f = "parseSeqId" -> parseSeqId(a[1])
      [] f = "parseCallOffset" -> parseCallOffset(a[1])
      [] f = "parseOperatorEncoding" -> parseOperatorEncoding(a[1])
      [] f = "parseSourceName" -> parseSourceName(a[1])
      [] f = "parseAbiTags" -> parseAbiTags(a[1], a[2])
      [] f = "parseSubstitution" -> parseSubstitution(a[1])
      [] f = "parseTemplateParam" -> parseTemplateParam(a[1])
      [] f = "resolveForwardTemplateRefs" -> resolveForwardTemplateRefs(a[1], a[2])

(***************************************************************************)
(* OutputBuffer.  Utility.h is not among the sources; the buffer follows   *)
(* its description in section 4.2 of the specification: appends, the       *)
(* current position, the pack state, the GtIsGt counter, and printOpen /   *)
(* printClose, which drop a pair that has nothing between its two tokens.  *)
(* opens holds the position of every printOpen still to be closed;         *)
(* Printing holds the nodes whose Printing flag is set.  Four counters     *)
(* observe the printer: muted counts the member calls that returned at     *)
(* "if (Printing)", cycles the chains in which collapse detected a cycle,  *)
(* dropped the references that printed nothing because collapse returned   *)
(* no pointee, and hops is the longest Prev a collapse has built.          *)
(***************************************************************************)
OutputBuffer ==
    [buf |-> "", GtIsGt |-> 1,
     CurrentPackIndex |-> UIntMax, CurrentPackMax |-> UIntMax,
     opens |-> <<>>, Printing |-> {},
     muted |-> 0, cycles |-> 0, dropped |-> 0, hops |-> 0]

\* if (Printing) return ...;
Muted(OB) == [OB EXCEPT !.muted = @ + 1]

\* if (!Collapsed.second) return;
Dropped(OB) == [OB EXCEPT !.dropped = @ + 1]

\* OB += R and OB << R
OBAppend(OB, R) == [OB EXCEPT !.buf = @ \o R]

getCurrentPosition(OB) == Len(OB.buf)

setCurrentPosition(OB, NewPos) == [OB EXCEPT !.buf = SubSeq(@, 1, NewPos)]

\* OutputBuffer::isGtInsideTemplateArgs
isGtInsideTemplateArgs(OB) == OB.GtIsGt = 0

printOpen(OB) ==
    [OB EXCEPT !.GtIsGt = @ + 1,
               !.opens = Append(@, Len(OB.buf)),
               !.buf = @ \o "("]

\* The output is unchanged since the open when only the open token follows
\* the position the open was made at.
\* printClose as it would be if it emitted the closing token whatever has
\* been written since the matching printOpen
printClose_always(OB) ==
    [OB EXCEPT !.GtIsGt = @ - 1,
               !.opens = SubSeq(@, 1, Len(@) - 1),
               !.buf = @ \o ")"]

printClose(OB) ==
    LET At == OB.opens[Len(OB.opens)] IN
    [OB EXCEPT !.GtIsGt = @ - 1,
               !.opens = SubSeq(@, 1, Len(@) - 1),
               !.buf = IF Len(OB.buf) = At + 1 THEN SubSeq(@, 1, At) ELSE @ \o ")"]

(***************************************************************************)
(* The printer                                                             *)
(***************************************************************************)
RECURSIVE getBaseName(_, _)
\* Node::getBaseName and its overrides
getBaseName(Arena, n) ==
    LET N == Arena[n]
        Expanded == CASE N.S = "allocator" -> "allocator"
                      [] N.S = "basic_string" -> "basic_string"
                      [] N.S = "string" -> "basic_string"
                      [] N.S = "istream" -> "basic_istream"
                      [] N.S = "ostream" -> "basic_ostream"
                      [] N.S = "iostream" -> "basic_iostream"
                      [] OTHER -> ""
        \* isInstantiation: unsigned(SSK) >= unsigned(SpecialSubKind::string)
        isInstantiation == N.S \in {"string", "istream", "ostream", "iostream"}
    IN
    CASE N.K = "NameType" -> N.S
      [] N.K = "NestedName" -> getBaseName(Arena, N.B)
      [] N.K = "NameWithTemplateArgs" -> getBaseName(Arena, N.A)
      [] N.K = "ExpandedSpecialSubstitution" -> Expanded
      [] N.K = "SpecialSubstitution" ->
            IF isInstantiation THEN dropFront(Expanded, Len("basic_")) ELSE Expanded
      [] OTHER -> ""

\* Pointee->getKind() == KObjCProtoName && Pointee->isObjCObject()
isObjCObject(Arena, n) ==
    /\ Arena[n].K = "ObjCProtoName"
    /\ Arena[Arena[n].A].K = "NameType"
    /\ Arena[Arena[n].A].S = "objc_object"

\* ParameterPack::initializePackExpansion
initializePackExpansion(N, OB) ==
    IF OB.CurrentPackMax = UIntMax
    THEN [OB EXCEPT !.CurrentPackMax = Len(N.L), !.CurrentPackIndex = 0]
    ELSE OB

RECURSIVE Virtual(_, _)
RECURSIVE has(_, _, _, _), getSyntaxNode(_, _, _), CollapseLoop(_, _, _, _, _),
          printLeft(_, _, _), printRight(_, _, _), print(_, _, _),
          printWithCommaLoop(_, _, _, _, _), printAsOperand(_, _, _, _, _),
          PackExpansionLoop(_, _, _, _, _)

\* hasRHSComponent, hasArray and hasFunction with their Slow overrides;
\* Cache names the cache field asked for.  The answer and the buffer.
has(Cache, Arena, n, OB) ==
    LET N == Arena[n] IN
    IF N[Cache] # "Unknown" THEN [v |-> N[Cache] = "Yes", o |-> OB]
    ELSE IF N.K = "QualType" THEN Virtual("has", <<Cache, Arena, N.A, OB>>)
    ELSE IF N.K \in {"PointerType", "ReferenceType"} /\ Cache = "RHSComponentCache"
    THEN Virtual("has", <<Cache, Arena, N.A, OB>>)
    ELSE IF N.K = "ParameterPack"
    THEN LET o1 == initializePackExpansion(N, OB)
             Idx == o1.CurrentPackIndex
         IN IF Idx < Len(N.L) THEN Virtual("has", <<Cache, Arena, N.L[Idx + 1], o1>>)
            ELSE [v |-> FALSE, o |-> o1]
    ELSE IF N.K = "ForwardTemplateReference"
    THEN IF n \in OB.Printing THEN [v |-> FALSE, o |-> Muted(OB)]
         ELSE LET r == Virtual("has", <<Cache, Arena, N.A, [OB EXCEPT !.Printing = @ \cup {n}]>>) IN
              [v |-> r.v, o |-> [r.o EXCEPT !.Printing = @ \ {n}]]
    ELSE [v |-> FALSE, o |-> OB]

hasRHSComponent(Arena, n, OB) == Virtual("has", <<"RHSComponentCache", Arena, n, OB>>)

hasArray(Arena, n, OB) == Virtual("has", <<"ArrayCache", Arena, n, OB>>)

hasFunction(Arena, n, OB) == Virtual("has", <<"FunctionCache", Arena, n, OB>>)

\* Pointee->hasArray(OB) || Pointee->hasFunction(OB)
hasArrayOrFunction(Arena, n, OB) ==
    LET a == hasArray(Arena, n, OB) IN
    IF a.v THEN a ELSE hasFunction(Arena, n, a.o)

\* getSyntaxNode as it would be if ForwardTemplateReference::getSyntaxNode
\* set Printing and left it set
getSyntaxNode_leavesPrinting(Arena, n, OB) ==
    LET N == Arena[n] IN
    IF N.K = "ParameterPack"
    THEN LET o1 == initializePackExpansion(N, OB)
             Idx == o1.CurrentPackIndex
         IN IF Idx < Len(N.L) THEN Virtual("getSyntaxNode", <<Arena, N.L[Idx + 1], o1>>)
            ELSE [n |-> n, o |-> o1]
    ELSE IF N.K = "ForwardTemplateReference"
    THEN IF n \in OB.Printing THEN [n |-> n, o |-> Muted(OB)]
         ELSE LET r == Virtual("getSyntaxNode", <<Arena, N.A, [OB EXCEPT !.Printing = @ \cup {n}]>>) IN
              [n |-> r.n, o |-> r.o]
    ELSE [n |-> n, o |-> OB]

\* getSyntaxNode: the node and the buffer
getSyntaxNode(Arena, n, OB) ==
    LET N == Arena[n] IN
    IF N.K = "ParameterPack"
    THEN LET o1 == initializePackExpansion(N, OB)
             Idx == o1.CurrentPackIndex
         IN IF Idx < Len(N.L) THEN Virtual("getSyntaxNode", <<Arena, N.L[Idx + 1], o1>>)
            ELSE [n |-> n, o |-> o1]
    ELSE IF N.K = "ForwardTemplateReference"
    THEN IF n \in OB.Printing THEN [n |-> n, o |-> Muted(OB)]
         ELSE LET r == Virtual("getSyntaxNode", <<Arena, N.A, [OB EXCEPT !.Printing = @ \cup {n}]>>) IN
              [n |-> r.n, o |-> [r.o EXCEPT !.Printing = @ \ {n}]]
    ELSE [n |-> n, o |-> OB]

\* collapse as it would be if it left the loop on a detected cycle without
\* SoFar.second = nullptr
CollapseLoop_keepsPointee(Arena, first, second, Prev, OB) ==
    LET SN == Virtual("getSyntaxNode", <<Arena, second, OB>>) IN
    IF Arena[SN.n].K # "ReferenceType"
    THEN [first |-> first, second |-> second, o |-> SN.o]
    ELSE LET RT == Arena[SN.n]
             second1 == RT.A
             first1 == IF first = "LValue" \/ RT.S = "LValue" THEN "LValue"
                       ELSE "RValue"
             Prev1 == Append(Prev, second1)
             o1 == [SN.o EXCEPT !.hops = IF Len(Prev1) > @ THEN Len(Prev1) ELSE @]
         IN IF Len(Prev1) > 1 /\ second1 = Prev1[((Len(Prev1) - 1) \div 2) + 1]
            THEN [first |-> first1, second |-> second1, o |-> [o1 EXCEPT !.cycles = @ + 1]]
            ELSE Virtual("CollapseLoop", <<Arena, first1, second1, Prev1, o1>>)

\* collapse as it would be if SoFar.first took the kind of the reference
\* reached last instead of the smaller of the two kinds
CollapseLoop_lastKind(Arena, first, second, Prev, OB) ==
    LET SN == Virtual("getSyntaxNode", <<Arena, second, OB>>) IN
    IF Arena[SN.n].K # "ReferenceType"
    THEN [first |-> first, second |-> second, o |-> SN.o]
    ELSE LET RT == Arena[SN.n]
             second1 == RT.A
             first1 == RT.S
             Prev1 == Append(Prev, second1)
             o1 == [SN.o EXCEPT !.hops = IF Len(Prev1) > @ THEN Len(Prev1) ELSE @]
         IN IF Len(Prev1) > 1 /\ second1 = Prev1[((Len(Prev1) - 1) \div 2) + 1]
            THEN [first |-> first1, second |-> NullPtr, o |-> [o1 EXCEPT !.cycles = @ + 1]]
            ELSE Virtual("CollapseLoop", <<Arena, first1, second1, Prev1, o1>>)

\* The loop of ReferenceType::collapse: SoFar is <<first, second>>, and
\* second is NullPtr when a cycle was found
CollapseLoop(Arena, first, second, Prev, OB) ==
    LET SN == Virtual("getSyntaxNode", <<Arena, second, OB>>) IN
    IF Arena[SN.n].K # "ReferenceType"
    THEN [first |-> first, second |-> second, o |-> SN.o]
    ELSE LET RT == Arena[SN.n]
             second1 == RT.A
             \* std::min of two ReferenceKinds: LValue is the smaller
             first1 == IF first = "LValue" \/ RT.S = "LValue" THEN "LValue"
                       ELSE "RValue"
             Prev1 == Append(Prev, second1)
             o1 == [SN.o EXCEPT !.hops = IF Len(Prev1) > @ THEN Len(Prev1) ELSE @]
         IN IF Len(Prev1) > 1 /\ second1 = Prev1[((Len(Prev1) - 1) \div 2) + 1]
            THEN [first |-> first1, second |-> NullPtr, o |-> [o1 EXCEPT !.cycles = @ + 1]]
            ELSE Virtual("CollapseLoop", <<Arena, first1, second1, Prev1, o1>>)

collapse(Arena, n, OB) == Virtual("CollapseLoop", <<Arena, Arena[n].S, Arena[n].A, <<>>, OB>>)

\* QualType::printQuals and the qualifiers FunctionEncoding::printRight prints
printQuals(Quals, OB) ==
    LET o1 == IF (Quals \div QualConst) % 2 = 1 THEN OBAppend(OB, " const") ELSE OB
        o2 == IF (Quals \div QualVolatile) % 2 = 1 THEN OBAppend(o1, " volatile") ELSE o1
    IN IF (Quals \div QualRestrict) % 2 = 1 THEN OBAppend(o2, " restrict") ELSE o2

\* Node::print
print(Arena, n, OB) ==
    LET o1 == Virtual("printLeft", <<Arena, n, OB>>) IN
    IF Arena[n].RHSComponentCache # "No" THEN Virtual("printRight", <<Arena, n, o1>>) ELSE o1

\* printAsOperand as it would be if it always took the strict test
printAsOperand_alwaysStrict(Arena, n, OB, P, StrictlyWorse) ==
    LET Paren == PrecVal(Arena[n].Prec) >= PrecVal(P) + 1
        o1 == IF Paren THEN printOpen(OB) ELSE OB
        o2 == Virtual("print", <<Arena, n, o1>>)
    IN IF Paren THEN printClose(o2) ELSE o2

\* Node::printAsOperand
printAsOperand(Arena, n, OB, P, StrictlyWorse) ==
    LET Paren == PrecVal(Arena[n].Prec) >= PrecVal(P) + (IF StrictlyWorse THEN 1 ELSE 0)
        o1 == IF Paren THEN printOpen(OB) ELSE OB
        o2 == Virtual("print", <<Arena, n, o1>>)
    IN IF Paren THEN printClose(o2) ELSE o2

\* printWithComma as it would be if the comma written before an element
\* that printed nothing were left in the buffer
printWithCommaLoop_keepsComma(Arena, Elements, Idx, FirstElement, OB) ==
    IF Idx = Len(Elements) THEN OB
    ELSE LET o1 == IF ~FirstElement THEN OBAppend(OB, ", ") ELSE OB
             AfterComma == getCurrentPosition(o1)
             o2 == Virtual("printAsOperand", <<Arena, Elements[Idx + 1], o1, "Comma", FALSE>>)
         IN IF AfterComma = getCurrentPosition(o2)
            THEN Virtual("printWithCommaLoop", <<Arena, Elements, Idx + 1, FirstElement, o2>>)
            ELSE Virtual("printWithCommaLoop", <<Arena, Elements, Idx + 1, FALSE, o2>>)

\* NodeArray::printWithComma from element Idx (counted from 0) on
\* printWithComma as it would be if the separator were a bare comma
printWithCommaLoop_bareComma(Arena, Elements, Idx, FirstElement, OB) ==
    IF Idx = Len(Elements) THEN OB
    ELSE LET BeforeComma == getCurrentPosition(OB)
             o1 == IF ~FirstElement THEN OBAppend(OB, ",") ELSE OB
             AfterComma == getCurrentPosition(o1)
             o2 == Virtual("printAsOperand", <<Arena, Elements[Idx + 1], o1, "Comma", FALSE>>)
         IN IF AfterComma = getCurrentPosition(o2)
            THEN Virtual("printWithCommaLoop", <<Arena, Elements, Idx + 1, FirstElement,
                                    setCurrentPosition(o2, BeforeComma)>>)
            ELSE Virtual("printWithCommaLoop", <<Arena, Elements, Idx + 1, FALSE, o2>>)

printWithCommaLoop(Arena, Elements, Idx, FirstElement, OB) ==
    IF Idx = Len(Elements) THEN OB
    ELSE LET BeforeComma == getCurrentPosition(OB)
             o1 == IF ~FirstElement THEN OBAppend(OB, ", ") ELSE OB
             AfterComma == getCurrentPosition(o1)
             o2 == Virtual("printAsOperand", <<Arena, Elements[Idx + 1], o1, "Comma", FALSE>>)
         IN IF AfterComma = getCurrentPosition(o2)
            THEN Virtual("printWithCommaLoop", <<Arena, Elements, Idx + 1, FirstElement,
                                    setCurrentPosition(o2, BeforeComma)>>)
            ELSE Virtual("printWithCommaLoop", <<Arena, Elements, Idx + 1, FALSE, o2>>)

printWithComma(Arena, Elements, OB) == Virtual("printWithCommaLoop", <<Arena, Elements, 0, TRUE, OB>>)

\* The loop of ParameterPackExpansion::printLeft as it would be without
\* OB.CurrentPackIndex = I
PackExpansionLoop_sameIndex(Arena, Child, I, E, OB) ==
    IF I < E
    THEN Virtual("PackExpansionLoop", <<Arena, Child, I + 1, E,
             Virtual("print", <<Arena, Child, OBAppend(OB, ", ")>>)>>)
    ELSE OB

\* for (unsigned I = 1, E = OB.CurrentPackMax; I < E; ++I) of
\* ParameterPackExpansion::printLeft
PackExpansionLoop(Arena, Child, I, E, OB) ==
    IF I < E
    THEN Virtual("PackExpansionLoop", <<Arena, Child, I + 1, E,
             Virtual("print", <<Arena, Child, [OBAppend(OB, ", ") EXCEPT !.CurrentPackIndex = I]>>)>>)
    ELSE OB

\* printLeft of every node kind the parser above can make
printLeft(Arena, n, OB) ==
    LET N == Arena[n] IN
    CASE N.K = "NameType" -> OBAppend(OB, N.S)
      [] N.K = "DotSuffix" ->
            OBAppend(OBAppend(OBAppend(Virtual("print", <<Arena, N.A, OB>>), " ("), N.S), ")")
      [] N.K = "QualType" -> printQuals(N.CVQuals, Virtual("printLeft", <<Arena, N.A, OB>>))
      [] N.K = "ConversionOperatorType" -> Virtual("print", <<Arena, N.A, OBAppend(OB, "operator ")>>)
      [] N.K = "PostfixQualifiedType" -> OBAppend(Virtual("printLeft", <<Arena, N.A, OB>>), N.S)
      [] N.K = "ElaboratedTypeSpefType" ->
            Virtual("print", <<Arena, N.A, OBAppend(OBAppend(OB, N.S), " ")>>)
      [] N.K = "AbiTagAttr" ->
            OBAppend(OBAppend(OBAppend(Virtual("printLeft", <<Arena, N.A, OB>>), "[abi:"), N.S), "]")
      [] N.K = "EnableIfAttr" ->
            OBAppend(printWithComma(Arena, N.L, OBAppend(OB, " [enable_if:")), "]")
      [] N.K = "VendorExtQualType" ->
            LET o1 == OBAppend(OBAppend(Virtual("print", <<Arena, N.A, OB>>), " "), N.S)
            IN IF N.B # NullPtr THEN Virtual("print", <<Arena, N.B, o1>>) ELSE o1
      [] N.K = "ObjCProtoName" ->
            OBAppend(OBAppend(OBAppend(Virtual("print", <<Arena, N.A, OB>>), "<"), N.S), ">")
      [] N.K = "PointerType" ->
            LET o1 == Virtual("printLeft", <<Arena, N.A, OB>>)
                a == hasArray(Arena, N.A, o1)
                o2 == IF a.v THEN OBAppend(a.o, " ") ELSE a.o
                af == hasArrayOrFunction(Arena, N.A, o2)
                o3 == IF af.v THEN OBAppend(af.o, "(") ELSE af.o
            IN IF isObjCObject(Arena, N.A)
               THEN OBAppend(OBAppend(OBAppend(OB, "id<"), Arena[N.A].S), ">")
               ELSE OBAppend(o3, "*")
      [] N.K = "ReferenceType" ->
            IF n \in OB.Printing THEN Muted(OB)
            ELSE LET Collapsed == collapse(Arena, n, [OB EXCEPT !.Printing = @ \cup {n}])
                     o1 == Virtual("printLeft", <<Arena, Collapsed.second, Collapsed.o>>)
                     a == hasArray(Arena, Collapsed.second, o1)
                     o2 == IF a.v THEN OBAppend(a.o, " ") ELSE a.o
                     af == hasArrayOrFunction(Arena, Collapsed.second, o2)
                     o3 == IF af.v THEN OBAppend(af.o, "(") ELSE af.o
                     o4 == OBAppend(o3, IF Collapsed.first = "LValue" THEN "&" ELSE "&&")
                 IN [(IF Collapsed.second = NullPtr THEN Dropped(Collapsed.o) ELSE o4)
                        EXCEPT !.Printing = @ \ {n}]
      [] N.K = "FunctionEncoding" ->
            IF N.A # NullPtr
            THEN LET o1 == Virtual("printLeft", <<Arena, N.A, OB>>)
                     r == hasRHSComponent(Arena, N.A, o1)
                 IN Virtual("print", <<Arena, N.B, IF ~r.v THEN OBAppend(r.o, " ") ELSE r.o>>)
            ELSE Virtual("print", <<Arena, N.B, OB>>)
      [] N.K = "LiteralOperator" -> Virtual("print", <<Arena, N.A, OBAppend(OB, "operator\"\" ")>>)
      [] N.K = "SpecialName" -> Virtual("print", <<Arena, N.A, OBAppend(OB, N.S)>>)
      [] N.K = "CtorVtableSpecialName" ->
            Virtual("print", <<Arena, N.B,
                  OBAppend(Virtual("print", <<Arena, N.A, OBAppend(OB, "construction vtable for ")>>),
                           "-in-")>>)
      [] N.K \in {"NestedName", "LocalName"} ->
            Virtual("print", <<Arena, N.B, OBAppend(Virtual("print", <<Arena, N.A, OB>>), "::")>>)
      [] N.K = "ParameterPack" ->
            LET o1 == initializePackExpansion(N, OB)
                Idx == o1.CurrentPackIndex
            IN IF Idx < Len(N.L) THEN Virtual("printLeft", <<Arena, N.L[Idx + 1], o1>>) ELSE o1
      [] N.K = "TemplateArgumentPack" -> printWithComma(Arena, N.L, OB)
      [] N.K = "ParameterPackExpansion" ->
            LET StreamPos == getCurrentPosition(OB)
                o1 == Virtual("print", <<Arena, N.A, [OB EXCEPT !.CurrentPackIndex = UIntMax,
                                                   !.CurrentPackMax = UIntMax]>>)
                o2 == IF o1.CurrentPackMax = UIntMax THEN OBAppend(o1, "...")
                      ELSE IF o1.CurrentPackMax = 0 THEN setCurrentPosition(o1, StreamPos)
                      ELSE Virtual("PackExpansionLoop", <<Arena, N.A, 1, o1.CurrentPackMax, o1>>)
            IN [o2 EXCEPT !.CurrentPackIndex = OB.CurrentPackIndex,
                          !.CurrentPackMax = OB.CurrentPackMax]
      [] N.K = "BinaryExpr" ->
            LET ParenAll == isGtInsideTemplateArgs(OB) /\ N.S \in {">", ">>"}
                o0 == IF ParenAll THEN printOpen(OB) ELSE OB
                \* Assignment is right associative, with special LHS precedence
                IsAssign == N.Prec = "Assign"
                o1 == Virtual("printAsOperand",
                              <<Arena, N.A, o0, IF IsAssign THEN "OrIf" ELSE N.Prec, ~IsAssign>>)
                o2 == OBAppend(OBAppend(IF N.S # "," THEN OBAppend(o1, " ") ELSE o1, N.S), " ")
                o3 == Virtual("printAsOperand", <<Arena, N.B, o2, N.Prec, IsAssign>>)
            IN IF ParenAll THEN printClose(o3) ELSE o3
      [] N.K = "PrefixExpr" ->
            Virtual("printAsOperand", <<Arena, N.A, OBAppend(OB, N.S), N.Prec, FALSE>>)
      [] N.K = "PostfixExpr" ->
            OBAppend(Virtual("printAsOperand", <<Arena, N.A, OB, N.Prec, TRUE>>), N.S)
      [] N.K = "ConditionalExpr" ->
            LET o1 == Virtual("printAsOperand", <<Arena, N.A, OB, N.Prec, FALSE>>)
                o2 == Virtual("printAsOperand", <<Arena, N.B, OBAppend(o1, " ? "), "Default", FALSE>>)
            IN Virtual("printAsOperand", <<Arena, N.C, OBAppend(o2, " : "), "Assign", TRUE>>)
      [] N.K = "ConversionExpr" ->
            LET o1 == printClose(Virtual("print", <<Arena, N.A, printOpen(OB)>>))
            IN printClose(printWithComma(Arena, N.L, printOpen(o1)))
      [] N.K = "BoolExpr" -> OBAppend(OB, IF N.F THEN "true" ELSE "false")
      [] N.K = "IntegerLiteral" ->
            LET o1 == IF Len(N.S) > 3 THEN printClose(OBAppend(printOpen(OB), N.S)) ELSE OB
                o2 == IF CharAt(N.Value, 1) = "n"
                      THEN OBAppend(OBAppend(o1, "-"), dropFront(N.Value, 1))
                      ELSE OBAppend(o1, N.Value)
            IN IF Len(N.S) <= 3 THEN OBAppend(o2, N.S) ELSE o2
      [] N.K = "TemplateArgs" ->
            LET o1 == printWithComma(Arena, N.L,
                                     OBAppend([OB EXCEPT !.GtIsGt = 0], "<"))
            IN [OBAppend(o1, ">") EXCEPT !.GtIsGt = OB.GtIsGt]
      [] N.K = "ForwardTemplateReference" ->
            IF n \in OB.Printing THEN Muted(OB)
            ELSE [Virtual("printLeft", <<Arena, N.A, [OB EXCEPT !.Printing = @ \cup {n}]>>)
                     EXCEPT !.Printing = @ \ {n}]
      [] N.K = "NameWithTemplateArgs" -> Virtual("print", <<Arena, N.B, Virtual("print", <<Arena, N.A, OB>>)>>)
      [] N.K = "ExpandedSpecialSubstitution" ->
            LET o1 == OBAppend(OBAppend(OB, "std::"), getBaseName(Arena, n)) IN
            IF N.S \in {"string", "istream", "ostream", "iostream"}
            THEN LET o2 == OBAppend(o1, "<char, std::char_traits<char>")
                     o3 == IF N.S = "string" THEN OBAppend(o2, ", std::allocator<char>")
                           ELSE o2
                 IN OBAppend(o3, ">")
            ELSE o1
      [] N.K = "SpecialSubstitution" ->
            OBAppend(OBAppend(OB, "std::"), getBaseName(Arena, n))
      [] N.K = "CtorDtorName" ->
            OBAppend(IF N.F THEN OBAppend(OB, "~") ELSE OB, getBaseName(Arena, N.A))

\* printRight of the node kinds that override it
printRight(Arena, n, OB) ==
    LET N == Arena[n] IN
    CASE N.K = "QualType" -> Virtual("printRight", <<Arena, N.A, OB>>)
      [] N.K = "PointerType" ->
            LET af == hasArrayOrFunction(Arena, N.A, OB) IN
            IF isObjCObject(Arena, N.A) THEN OB
            ELSE Virtual("printRight", <<Arena, N.A, IF af.v THEN OBAppend(af.o, ")") ELSE af.o>>)
      [] N.K = "ReferenceType" ->
            IF n \in OB.Printing THEN Muted(OB)
            ELSE LET Collapsed == collapse(Arena, n, [OB EXCEPT !.Printing = @ \cup {n}])
                     af == hasArrayOrFunction(Arena, Collapsed.second, Collapsed.o)
                     o1 == Virtual("printRight", <<Arena, Collapsed.second,
                                      IF af.v THEN OBAppend(af.o, ")") ELSE af.o>>)
                 IN [(IF Collapsed.second = NullPtr THEN Dropped(Collapsed.o) ELSE o1)
                        EXCEPT !.Printing = @ \ {n}]
      [] N.K = "FunctionEncoding" ->
            LET o1 == printClose(printWithComma(Arena, N.L, printOpen(OB)))
                o2 == IF N.A # NullPtr THEN Virtual("printRight", <<Arena, N.A, o1>>) ELSE o1
                o3 == printQuals(N.CVQuals, o2)
                o4 == IF N.RefQual = FrefQualLValue THEN OBAppend(o3, " &")
                      ELSE IF N.RefQual = FrefQualRValue THEN OBAppend(o3, " &&")
                      ELSE o3
            IN IF N.C # NullPtr THEN Virtual("print", <<Arena, N.C, o4>>) ELSE o4
      [] N.K = "ParameterPack" ->
            LET o1 == initializePackExpansion(N, OB)
                Idx == o1.CurrentPackIndex
            IN IF Idx < Len(N.L) THEN Virtual("printRight", <<Arena, N.L[Idx + 1], o1>>) ELSE o1
      [] N.K = "ForwardTemplateReference" ->
            IF n \in OB.Printing THEN Muted(OB)
            ELSE [Virtual("printRight", <<Arena, N.A, [OB EXCEPT !.Printing = @ \cup {n}]>>)
                     EXCEPT !.Printing = @ \ {n}]
      [] OTHER -> OB

\* N->f(a...): a call of a Node member function by another, resolved by
\* the kind of the node inside the member
Virtual(f, a) ==
    CASE f = "has" -> has(a[1], a[2], a[3], a[4])
      [] f = "getSyntaxNode" -> getSyntaxNode(a[1], a[2], a[3])
      [] f = "CollapseLoop" -> CollapseLoop(a[1], a[2], a[3], a[4], a[5])
      [] f = "printLeft" -> printLeft(a[1], a[2], a[3])
      [] f = "printRight" -> printRight(a[1], a[2], a[3])
      [] f = "print" -> print(a[1], a[2], a[3])
      [] f = "printWithCommaLoop" -> printWithCommaLoop(a[1], a[2], a[3], a[4], a[5])
      [] f = "printAsOperand" -> printAsOperand(a[1], a[2], a[3], a[4], a[5])
      [] f = "PackExpansionLoop" -> PackExpansionLoop(a[1], a[2], a[3], a[4], a[5])

(***************************************************************************)
(* The entry points                                                        *)
(***************************************************************************)
demangle_invalid_args == -3

demangle_invalid_mangled_name == -2

demangle_memory_alloc_failure == -1

demangle_success == 0

\* A call of the client: the entry point and its arguments.  MangledName is
\* the string M when hasM, and the null pointer otherwise; hasBuf, hasN and
\* hasStatus say which of the pointers Buf, N and Status are not null.
Call(op, hasM, M, hasBuf, hasN, hasStatus) ==
    [op |-> op, hasM |-> hasM, M |-> M, hasBuf |-> hasBuf, hasN |-> hasN,
     hasStatus |-> hasStatus]

\* What a completed call leaves in the log.  ret holds the bytes at the
\* returned pointer and null says that the pointer is null; wroteN / N and
\* wroteStatus / Status are the stores through the two out-pointers; fail is
\* the bool of partialDemangle.  The rest observes the parse: whether it ran,
\* whether a sub-parser returned null, the bytes left unread, the printed
\* AST, whether it left the modelled productions, the top-level
\* production with the offsets it started and returned at, and the parser
\* as parse() left it.
Outcome(c, ret, null, wroteN, N, wroteStatus, St, InternalStatus, fail, parsed, P, printed) ==
    [call |-> c, ret |-> ret, null |-> null, wroteN |-> wroteN, N |-> N,
     wroteStatus |-> wroteStatus, Status |-> St, InternalStatus |-> InternalStatus,
     fail |-> fail, parsed |-> parsed,
     nulls |-> parsed /\ P.nulls, left |-> IF parsed THEN numLeft(P) ELSE 0,
     printed |-> printed, unmodelled |-> parsed /\ P.unmodelled,
     top |-> IF parsed THEN P.top ELSE "none",
     topFrom |-> IF parsed THEN P.topFrom ELSE 0,
     topTo |-> IF parsed THEN P.topTo ELSE 0,
     topOk |-> parsed /\ P.topOk,
     Parser |-> IF parsed THEN P ELSE NewParser("")]

\* __cxa_demangle as it would be if it returned Buf whatever the status
cxa_demangle_returnsBuf(c) ==
    IF ~c.hasM \/ (c.hasBuf /\ ~c.hasN)
    THEN Outcome(c, "", TRUE, FALSE, 0, c.hasStatus, demangle_invalid_args,
                 demangle_invalid_args, FALSE, FALSE, NewParser(""), "")
    ELSE
    LET Parser == NewParser(c.M)
        \* what follows Node *AST = Parser.parse()
        Parsed(AST) ==
            IF AST.n = NullPtr
            THEN Outcome(c, "", ~c.hasBuf, FALSE, 0, c.hasStatus, demangle_invalid_mangled_name,
                         demangle_invalid_mangled_name, FALSE, TRUE, AST.p, "")
            ELSE
            LET O1 == Virtual("print", <<AST.p.Arena, AST.n, OutputBuffer>>)
                O == OBAppend(O1, NUL)
            IN Outcome(c, O.buf, FALSE, c.hasN, getCurrentPosition(O), c.hasStatus,
                       demangle_success, demangle_success, FALSE, TRUE, AST.p, O1.buf)
    IN Parsed(Derived("parse", <<Parser>>))

\* __cxa_demangle as it would be if it read the position before O += 0
cxa_demangle_lengthBeforeNul(c) ==
    IF ~c.hasM \/ (c.hasBuf /\ ~c.hasN)
    THEN Outcome(c, "", TRUE, FALSE, 0, c.hasStatus, demangle_invalid_args,
                 demangle_invalid_args, FALSE, FALSE, NewParser(""), "")
    ELSE
    LET Parser == NewParser(c.M)
        \* what follows Node *AST = Parser.parse()
        Parsed(AST) ==
            IF AST.n = NullPtr
            THEN Outcome(c, "", TRUE, FALSE, 0, c.hasStatus, demangle_invalid_mangled_name,
                         demangle_invalid_mangled_name, FALSE, TRUE, AST.p, "")
            ELSE
            LET O1 == Virtual("print", <<AST.p.Arena, AST.n, OutputBuffer>>)
                O == OBAppend(O1, NUL)
            IN Outcome(c, O.buf, FALSE, c.hasN, getCurrentPosition(O1), c.hasStatus,
                       demangle_success, demangle_success, FALSE, TRUE, AST.p, O1.buf)
    IN Parsed(Derived("parse", <<Parser>>))

\* __cxa_demangle as it would be if its parser started from the substitution
\* table and the arena of a partial demangler that holds a tree, instead of
\* empty ones of its own
cxa_demangle_sharedTables(c) ==
    IF ~c.hasM \/ (c.hasBuf /\ ~c.hasN)
    THEN Outcome(c, "", TRUE, FALSE, 0, c.hasStatus, demangle_invalid_args,
                 demangle_invalid_args, FALSE, FALSE, NewParser(""), "")
    ELSE
    LET Parser == IF RootNode = NullPtr THEN NewParser(c.M)
                  ELSE [NewParser(c.M) EXCEPT !.Subs = Context.Subs,
                                              !.Arena = Context.Arena]
        \* what follows Node *AST = Parser.parse()
        Parsed(AST) ==
            IF AST.n = NullPtr
            THEN Outcome(c, "", TRUE, FALSE, 0, c.hasStatus, demangle_invalid_mangled_name,
                         demangle_invalid_mangled_name, FALSE, TRUE, AST.p, "")
            ELSE
            LET O1 == Virtual("print", <<AST.p.Arena, AST.n, OutputBuffer>>)
                O == OBAppend(O1, NUL)
            IN Outcome(c, O.buf, FALSE, c.hasN, getCurrentPosition(O), c.hasStatus,
                       demangle_success, demangle_success, FALSE, TRUE, AST.p, O1.buf)
    IN Parsed(Derived("parse", <<Parser>>))

\* __cxa_demangle
cxa_demangle(c) ==
    IF ~c.hasM \/ (c.hasBuf /\ ~c.hasN)
    THEN Outcome(c, "", TRUE, FALSE, 0, c.hasStatus, demangle_invalid_args,
                 demangle_invalid_args, FALSE, FALSE, NewParser(""), "")
    ELSE
    LET Parser == NewParser(c.M)
        \* what follows Node *AST = Parser.parse()
        Parsed(AST) ==
            IF AST.n = NullPtr
            THEN Outcome(c, "", TRUE, FALSE, 0, c.hasStatus, demangle_invalid_mangled_name,
                         demangle_invalid_mangled_name, FALSE, TRUE, AST.p, "")
            ELSE
            LET O1 == Virtual("print", <<AST.p.Arena, AST.n, OutputBuffer>>)
                O == OBAppend(O1, NUL)
            IN Outcome(c, O.buf, FALSE, c.hasN, getCurrentPosition(O), c.hasStatus,
                       demangle_success, demangle_success, FALSE, TRUE, AST.p, O1.buf)
    IN Parsed(Derived("parse", <<Parser>>))

\* itaniumDemangle as it would be if it tested MangledName == nullptr only
itaniumDemangle_onlyNullName(c) ==
    IF ~c.hasM
    THEN Outcome(c, "", TRUE, FALSE, 0, c.hasStatus, demangle_invalid_args,
                 demangle_invalid_args, FALSE, FALSE, NewParser(""), "")
    ELSE
    LET Parser == NewParser(c.M)
        \* what follows Node *AST = Parser.parse()
        Parsed(AST) ==
            IF AST.n = NullPtr
            THEN Outcome(c, "", TRUE, FALSE, 0, c.hasStatus, demangle_invalid_mangled_name,
                         demangle_invalid_mangled_name, FALSE, TRUE, AST.p, "")
            ELSE
            LET OB1 == Virtual("print", <<AST.p.Arena, AST.n, OutputBuffer>>)
                OB == OBAppend(OB1, NUL)
            IN Outcome(c, OB.buf, FALSE, c.hasN, getCurrentPosition(OB), c.hasStatus,
                       demangle_success, demangle_success, FALSE, TRUE, AST.p, OB1.buf)
    IN Parsed(Derived("parse", <<Parser>>))

\* llvm::itaniumDemangle
itaniumDemangle(c) ==
    IF ~c.hasM \/ (c.hasBuf /\ ~c.hasN)
    THEN Outcome(c, "", TRUE, FALSE, 0, c.hasStatus, demangle_invalid_args,
                 demangle_invalid_args, FALSE, FALSE, NewParser(""), "")
    ELSE
    LET Parser == NewParser(c.M)
        \* what follows Node *AST = Parser.parse()
        Parsed(AST) ==
            IF AST.n = NullPtr
            THEN Outcome(c, "", TRUE, FALSE, 0, c.hasStatus, demangle_invalid_mangled_name,
                         demangle_invalid_mangled_name, FALSE, TRUE, AST.p, "")
            ELSE
            LET OB1 == Virtual("print", <<AST.p.Arena, AST.n, OutputBuffer>>)
                OB == OBAppend(OB1, NUL)
            IN Outcome(c, OB.buf, FALSE, c.hasN, getCurrentPosition(OB), c.hasStatus,
                       demangle_success, demangle_success, FALSE, TRUE, AST.p, OB1.buf)
    IN Parsed(Derived("parse", <<Parser>>))

\* printNode as it would be if it forgot OB += 0
printNode_noTerminator(Arena, Root, Flags) ==
    LET OB1 == Virtual("print", <<Arena, Root, [OutputBuffer EXCEPT !.Printing = Flags]>>)
    IN [ret |-> OB1.buf, N |-> getCurrentPosition(OB1), printed |-> OB1.buf,
        Printing |-> OB1.Printing]

\* printNode: the buffer it returns, the position it stores through N, and
\* the Printing flags of the nodes, which a fresh OutputBuffer finds as
\* the previous print left them
printNode(Arena, Root, Flags) ==
    LET OB1 == Virtual("print", <<Arena, Root, [OutputBuffer EXCEPT !.Printing = Flags]>>)
        OB == OBAppend(OB1, NUL)
    IN [ret |-> OB.buf, N |-> getCurrentPosition(OB), printed |-> OB1.buf,
        Printing |-> OB1.Printing]

(***************************************************************************)
(* The client: the mangled names it passes and the calls it makes          *)
(***************************************************************************)
\* The longest generated name, in tokens
MaxTokens == 3

\* Pieces of mangled names: a source name, nested-name and template-argument
\* brackets, a template parameter, a substitution, builtin types, a pointer
Tokens == <<"1f", "N", "E", "I", "T_", "S_", "i", "v", "P">>

RECURSIVE Bodies(_)
\* The concatenations of at most k tokens
Bodies(k) ==
    IF k = 0 THEN {""}
    ELSE Bodies(k - 1) \cup
         {b \o Tokens[i] : b \in Bodies(k - 1), i \in 1..Len(Tokens)}

\* Names picked for what they exercise: nested names and substitutions,
\* templates, a conversion operator whose forward reference refers to
\* itself, packs, constructors, local names, the block-invocation forms, a
\* dot suffix, names the parser rejects, conversion operators whose
\* forward reference closes a cycle through references or a pointer,
\* substitutions inside and beyond the table, with sequence ids that wrap
\* in size_t (3W5E11264SGSG is 2^64 in base 36), nested names that
\* consist of a substitution, source names whose length exceeds the input
\* or wraps in size_t (18446744073709551617 is 2^64 + 1), vendor
\* qualifiers with and without an Objective-C protocol, the builtin types
\* and vendor extended builtins, and template parameters looked up inside
\* and outside the type of a conversion operator
Scenarios ==
    {"_ZNSt3vectorIiSaIiEE9push_backEOi", "_ZNSt6vectorIiSaIiEE9push_backEOi",
     "__Z1fv", "___Z1fv", "_ZcvT_IS_E", "_ZcvT_", "_ZN1fIiEcvT_Ev",
     "_Z1fIJiiEEvDpT_", "_Z1fIJEEvDpT_", "_ZN1fC1Ev", "_ZZ1fvE1g_0",
     "___Z1fv_block_invoke", "___Z1fv_block_invoke_2", "____Z1fv_block_invoke",
     "___Z1fv_block_invoke3", "___Z1fv_block_invoke_", "___Z1fi_block_invoke.x",
     "_Z1fv.cold", "_Z1fi.", "_ZNK1f1gERKS_", "PKc", "_Z1fiE", "_Z1fv_",
     "_ZN1fclEv", "_ZN1fclEi",
     "_ZcvRT_IS0_Ev", "_ZcvRT_IS0_S_Ev", "_ZcvROT_IS1_Ev", "_ZcvPT_IS0_Ev",
     "_Z1fPiS_", "_Z1fPiS0_", "_Z1fPiPS_S0_", "_Z1fPiSZ_", "_Z1fPiS0", "_Z1fPiPS_S0i",
     "_Z1fPiS3W5E11264SGSF_", "_Z1fPiPS_S3W5E11264SGSG_", "_Z1fPiPS_S3W5E11264SGSH_",
     "_Z1fPPiNS_ES0_", "_Z1fPPiNS0_ES0_", "_Z1fN1g1hES0_",
     "_Z2f", "_Z18446744073709551617f", "_Z18446744073709551616f", "_Z4294967297f",
     "PU11objcproto1A11objc_object", "U11objcproto2Ai", "U12objcproto1ABi", "U3fooi",
     "_Z1fU3fooPiS_", "_Z1fu1xS_", "_Z1fu1x", "_Z1fiS_", "_Z1fDiDnPDaS_", "_Z1fu0",
     "_Z1fwbcah", "_Z1fstjlm", "_Z1fxynoz",
     "u3foo", "Dc", "PDs", "_Z1fPu1xS0_", "_Z1fDuu2xyPS_",
     "_Z1fIiEvT_", "_Z1fIicEvT0_", "_Z1fIiEvT0_", "_Z1fIiEvTL0__",
     "_Z1fIiEvT18446744073709551615_", "_ZN1fIiEcvT_ET_", "_ZN1fIicEcvT0_Ev",
     "_ZN1f1gES_", "_ZN1f1gES0_", "_Z1fPiNStES_", "_Z1fPiNStE",
     "_Z1fRRi", "_Z1fOOi", "_Z1fROi", "_Z1fORi", "_Z1fOROi", "_Z1fIRiEvOT_",
     "_ZcvOT_IRiEv", "_ZcvOT_IOiEv", "_Z1fIJRiOiEEvDpOT_",
     "_Z1fIJicEEvDpT_", "_Z1fIJicEEvDpPT_", "_Z1fIiEvDpT_", "_Z1fDpi",
     "_Z1fIJcEEvDpDpT_", "_Z1fIJJicEEEvDpT_",
     "_Z1fIJEiEvDpT_T0_", "_Z1fIiJEEvT_DpT0_", "_Z1fIcJEiEvT_DpT0_T1_",
     "_Z1fIJEJEiEvDpT_DpT0_T1_", "_Z1fIiJEcEvv", "_Z1fIJEJEEvv", "_Z1fIJEEvDpOT_",
     "_Z1fIXmlmlLi1ELi2EmlLi3ELi4EEEvv", "_Z1fIXaSaSLi1ELi2EaSLi3ELi4EEEvv",
     "_Z1fIXaSooLi1ELi2ELi3EEEvv", "_Z1fIXaSaaLi1ELi2ELi3EEEvv",
     "_Z1fIXplLi1EmlLi2ELi3EEEvv", "_Z1fIXmlplLi1ELi2ELi3EEEvv",
     "_Z1fIXdvplLi1ELi2ELi3EEEvv", "_Z1fIXdvLi1EdvLi2ELi3EEEvv",
     "_Z1fIXrmLi1ErmLi2ELi3EEEvv", "_Z1fIXdVLi1ELi2EEEvv",
     "_Z1fIXaSmlLi1EmlLi2ELi3EaSLi4ELi5EEEvv", "_Z1fIXaSquLb1ELi1ELi2ELi3EEEvv",
     "_Z1fIXquLb1ELi1EaSLi2ELi3EEEvv", "_Z1fIXngplLi1ELi2EEEvv",
     "_Z1fIXppngLi1EEEvv", "_Z1fIXcmLi1EcmLi2ELi3EEEvv", "_Z1fIXgtLi1ELi2EEEvv",
     "_Z1fILb1ELin3ELj4ELc5EEvv", "_Z1fILDnEEvv", "_Z1fIXspLi1EEEvv",
     "_Z1fILZ1gIcEvvEiEvT_", "_Z1fI1gIcEiEvT0_", "_ZN1gIcE1fIiJlmEEEvT_",
     "_Z1fIiJcJlEEEvv",
     "_Z1fIXcviLi1EEEvv", "_Z1fIXcvi_Li1ELi2EEEEvv", "_Z1fIXcvi_EEEvv",
     "_Z1fIXcv1gIiELi1EEEvv", "_Z1fIXcvT_Li1EEEvv", "_Z1fIXcviEEvv",
     "_Z1fIXcviLi1EEvv", "_ZN1fcvT_IiEEv", "_ZN1fcv1gEv", "_ZcvT", "_Zcv",
     "_ZplRiS_", "_Zli1gv", "_Zv11gv"}

Names == Scenarios \cup {pre \o b : pre \in {"", "_Z"}, b \in Bodies(MaxTokens)}

\* What one partial demangler has been fed before the name under study:
\* nothing, a name that fails with a forward reference unresolved, and
\* that failing name followed by a name that parses
EarlierRuns ==
    {<<>>, <<"_ZcvT_">>, <<"_ZcvT_", "_ZNSt6vectorIiSaIiEE9push_backEOi">>}

\* The names the argument checks are exercised with
ArgNames == {"i", "_Z1fi", "_Z1"}

Demangle(op, M) == Call(op, TRUE, M, FALSE, TRUE, TRUE)

Partial(M) == Call("partialDemangle", TRUE, M, FALSE, FALSE, FALSE)

Finish == Call("finishDemangle", FALSE, "", FALSE, TRUE, FALSE)

\* The programs of the client: feed a partial demangler a run of earlier
\* names, then demangle M, parse M on the used partial demangler, demangle M
\* once more and finish the partial demangle twice; or make one call of an entry
\* point with some of its pointers null
Scripts ==
    {[i \in 1..Len(run) |-> Partial(run[i])] \o
        <<Demangle("__cxa_demangle", M), Partial(M),
          Demangle("itaniumDemangle", M), Finish, Finish>> :
        run \in EarlierRuns, M \in Names}
    \cup
    {<<Call(op, hasM, IF hasM THEN M ELSE "", hasBuf, hasN, hasStatus)>> :
        op \in {"__cxa_demangle", "itaniumDemangle"}, hasM \in BOOLEAN,
        M \in ArgNames, hasBuf \in BOOLEAN, hasN \in BOOLEAN, hasStatus \in BOOLEAN}

(***************************************************************************)
(* The state machine                                                       *)
(***************************************************************************)
\* The partial demangler is constructed with Demangler{nullptr, nullptr} and
\* a null RootNode; the caller's two cells hold values no call stores.
Init ==
    /\ todo \in Scripts
    /\ log = <<>>
    /\ Context = NewParser("")
    /\ RootNode = NullPtr
    /\ Printing = {}
    /\ Status = 1
    /\ NOut = 0
    /\ Alloc = BumpPointerAllocator

\* The stores through Status and N, and the log
Return(r) ==
    /\ log' = Append(log, r)
    /\ todo' = Tail(todo)
    /\ Status' = IF r.wroteStatus THEN r.Status ELSE Status
    /\ NOut' = IF r.wroteN THEN r.N ELSE NOut

Call_cxa_demangle ==
    /\ todo # <<>>
    /\ Head(todo).op = "__cxa_demangle"
    /\ Return(cxa_demangle(Head(todo)))
    /\ UNCHANGED <<Context, RootNode, Printing, Alloc>>

Call_itaniumDemangle ==
    /\ todo # <<>>
    /\ Head(todo).op = "itaniumDemangle"
    /\ Return(itaniumDemangle(Head(todo)))
    /\ UNCHANGED <<Context, RootNode, Printing, Alloc>>

\* ItaniumPartialDemangler::partialDemangle; reset frees the nodes, and
\* every node is constructed with its Printing flag false
partialDemangle ==
    /\ todo # <<>>
    /\ Head(todo).op = "partialDemangle"
    /\ LET c == Head(todo)
           Parser == reset(Context, c.M)
           \* what follows RootNode = Parser->parse()
           Parsed(r) ==
               /\ Context' = r.p
               /\ RootNode' = r.n
               /\ Printing' = {}
               /\ Return(Outcome(c, "", TRUE, FALSE, 0, FALSE, 0,
                                 IF r.n = NullPtr THEN demangle_invalid_mangled_name
                                 ELSE demangle_success,
                                 r.n = NullPtr, TRUE, r.p, ""))
       IN Parsed(Derived("parse", <<Parser>>))
    /\ UNCHANGED Alloc

\* ItaniumPartialDemangler::finishDemangle; a caller that respects the
\* assertion calls it only after a partialDemangle that succeeded
finishDemangle ==
    /\ todo # <<>>
    /\ Head(todo).op = "finishDemangle"
    /\ RootNode # NullPtr
    /\ LET c == Head(todo)
           r == printNode(Context.Arena, RootNode, Printing)
       IN /\ Printing' = r.Printing
          /\ Return(Outcome(c, r.ret, FALSE, c.hasN, r.N, FALSE, 0, demangle_success,
                            FALSE, FALSE, Context, r.printed))
    /\ UNCHANGED <<Context, RootNode, Alloc>>

Next ==
    \/ Call_cxa_demangle
    \/ Call_itaniumDemangle
    \/ partialDemangle
    \/ finishDemangle

Spec == Init /\ [][Next]_vars


(***************************************************************************)
(* What the log shows                                                      *)
(***************************************************************************)
\* The call was made through one of the two demangle entry points
IsDemangle(e) == e.call.op \in {"__cxa_demangle", "itaniumDemangle"}

\* The arguments pass the entry point's check
ValidArgs(c) == c.hasM /\ (c.hasBuf => c.hasN)

RECURSIVE Contains(_, _)
\* t occurs in s
Contains(s, t) ==
    /\ Len(s) >= Len(t)
    /\ (startsWith(s, t) \/ Contains(dropFront(s, 1), t))

RECURSIVE StripDigits(_)
\* s without its leading decimal digits
StripDigits(s) ==
    IF s # "" /\ isdigit(CharAt(s, 1)) THEN StripDigits(dropFront(s, 1)) ELSE s

\* The name the partial demangler holds when call number i of the log is
\* made: the one its latest partialDemangle was given
Fed(i) ==
    LET J == {j \in 1..(i - 1) : log[j].call.op = "partialDemangle"}
        last == CHOOSE j \in J : \A k \in J : k <= j
    IN log[last].call.M

\* The prefix of M that makes parse() choose <encoding>, or "" if none does
EncodingPrefix(M, Prefixes) ==
    IF \E k \in DOMAIN Prefixes : startsWith(M, Prefixes[k])
    THEN Prefixes[CHOOSE k \in DOMAIN Prefixes : startsWith(M, Prefixes[k])]
    ELSE ""

(***************************************************************************)
(* C1                                                                      *)
(***************************************************************************)
\* C1 as stated: for every non-null mangled string the entry point reports
\* success with a non-null buffer or invalid_mangled_name with a null one,
\* and never memory_alloc_failure or invalid_args.
C1_AsStated ==
    \A i \in DOMAIN log :
        LET e == log[i] IN
        (IsDemangle(e) /\ e.call.hasM) =>
            /\ \/ e.InternalStatus = demangle_success /\ ~e.null
               \/ e.InternalStatus = demangle_invalid_mangled_name /\ e.null
            /\ e.InternalStatus \notin {demangle_memory_alloc_failure,
                                        demangle_invalid_args}

\* C1 (amended): for every non-null mangled string passed without a buffer
\* that lacks its length pointer, the entry point reports exactly one of
\* success (0) with a non-null buffer and invalid_mangled_name (-2) with a
\* null buffer, never memory_alloc_failure (-1) or invalid_args (-3); the
\* status stored through Status is the one decided.
C1_TwoOutcomes ==
    \A i \in DOMAIN log :
        LET e == log[i] IN
        (IsDemangle(e) /\ ValidArgs(e.call)) =>
            /\ \/ e.InternalStatus = demangle_success /\ ~e.null
               \/ e.InternalStatus = demangle_invalid_mangled_name /\ e.null
            /\ e.InternalStatus \notin {demangle_memory_alloc_failure,
                                        demangle_invalid_args}
            /\ e.wroteStatus = e.call.hasStatus
            /\ (e.wroteStatus => e.Status = e.InternalStatus)

\* Both outcomes have been reported for well-formed calls: a success into a
\* caller's buffer, or a rejected name
C1_Witness ==
    /\ Len(log) = 1
    /\ IsDemangle(log[1]) /\ log[1].call.hasBuf /\ log[1].call.hasN
    /\ \/ log[1].InternalStatus = demangle_success /\ log[1].ret # ""
       \/ log[1].InternalStatus = demangle_invalid_mangled_name /\ log[1].null
    /\ log[1].call.hasStatus /\ Status = log[1].InternalStatus

(***************************************************************************)
(* C2                                                                      *)
(***************************************************************************)
\* C2: whenever a sub-parser has returned null, or bytes are left unread
\* after the top-level production, parse() has returned null: the entry
\* point reports invalid_mangled_name with a null result and stores no
\* length, partialDemangle reports failure, and nothing printed is
\* surfaced.
C2_NullOrTrailingFails ==
    \A i \in DOMAIN log :
        LET e == log[i] IN
        (e.parsed /\ (e.nulls \/ e.left > 0)) =>
            /\ e.InternalStatus = demangle_invalid_mangled_name
            /\ e.null /\ e.ret = "" /\ e.printed = "" /\ ~e.wroteN
            /\ (e.call.op = "partialDemangle" => e.fail)

\* One log holds a parse whose top-level production returned null and one
\* whose top-level production returned a node and left bytes unread
C2_Witness ==
    \E i, j \in DOMAIN log :
        /\ log[i].parsed /\ ~log[i].topOk /\ log[i].nulls
        /\ IsDemangle(log[j]) /\ log[j].topOk /\ log[j].left > 0
        /\ log[j].InternalStatus = demangle_invalid_mangled_name

(***************************************************************************)
(* C3                                                                      *)
(***************************************************************************)
\* C3: the entry point decides invalid_args (-3) with a null result exactly
\* when MangledName is null or Buf is given without N; it then does not
\* parse, stores nothing through N, and stores the status exactly when a
\* Status pointer was given, leaving the caller's cell alone otherwise.
C3_InvalidArgs ==
    \A i \in DOMAIN log :
        LET e == log[i] IN
        IsDemangle(e) =>
            /\ (e.InternalStatus = demangle_invalid_args /\ e.null)
                   <=> ~ValidArgs(e.call)
            /\ ~ValidArgs(e.call) =>
                   /\ ~e.parsed /\ ~e.wroteN
                   /\ e.wroteStatus = e.call.hasStatus
                   /\ (e.wroteStatus => e.Status = demangle_invalid_args)
                   /\ (Len(log) = 1 =>
                          /\ Status = IF e.call.hasStatus
                                      THEN demangle_invalid_args ELSE 1
                          /\ NOut = 0)

\* A buffer was passed without its length, and the status pointer received
\* invalid_args
C3_Witness ==
    /\ Len(log) = 1 /\ IsDemangle(log[1])
    /\ log[1].call.hasM /\ log[1].call.hasBuf /\ ~log[1].call.hasN
    /\ log[1].call.hasStatus /\ Status = demangle_invalid_args
    /\ log[1].null /\ ~log[1].parsed

(***************************************************************************)
(* C4                                                                      *)
(***************************************************************************)
\* C4: on success the returned bytes are the printed AST followed by one
\* NUL, the printed AST holds no NUL, and the length stored through N
\* counts the NUL: the string is N - 1 bytes long.
C4_OneTrailingNul ==
    \A i \in DOMAIN log :
        LET e == log[i] IN
        (IsDemangle(e) /\ e.InternalStatus = demangle_success) =>
            /\ ~e.null
            /\ e.ret = e.printed \o NUL
            /\ ~Contains(e.printed, NUL)
            /\ e.wroteN = e.call.hasN
            /\ e.N = Len(e.printed) + 1
            /\ (e.wroteN /\ i = Len(log) => NOut = Len(e.printed) + 1)

\* __cxa_demangle has printed a name of several bytes and stored its length
C4_Witness ==
    \E i \in DOMAIN log :
        /\ i = Len(log)
        /\ log[i].call.op = "__cxa_demangle"
        /\ log[i].InternalStatus = demangle_success
        /\ Len(log[i].printed) > 1
        /\ NOut = Len(log[i].printed) + 1

C6_StableUnderReset ==
    \A i \in DOMAIN log :
        LET e == log[i] IN
        /\ e.call.op = "partialDemangle" =>
               e.fail = (parse(NewParser(e.call.M)).n = NullPtr)
        /\ e.call.op = "finishDemangle" =>
               LET fresh == parse(NewParser(Fed(i))) IN
               /\ fresh.n # NullPtr
               /\ e.printed = print(fresh.p.Arena, fresh.n, OutputBuffer).buf

\* A partial demangler that had failed on one name and parsed another was
\* given a name that uses a substitution, parsed it and printed it
C6_Witness ==
    /\ Len(log) = 6
    /\ log[1].call.op = "partialDemangle" /\ log[1].fail
    /\ log[2].call.op = "partialDemangle" /\ ~log[2].fail
    /\ log[4].call.op = "partialDemangle" /\ ~log[4].fail
    /\ Contains(log[4].call.M, "S_")
    /\ log[6].call.op = "finishDemangle" /\ Len(log[6].printed) > 2

(***************************************************************************)
(* C7                                                                      *)
(***************************************************************************)
\* C7: partialDemangle(M) has reported failure exactly when a demangle of M
\* in the same run has reported invalid_mangled_name, and finishDemangle has
\* returned the bytes and stored the length that the demangle of the name
\* it holds has returned and stored.
C7_PartialConsistent ==
    \A i, j \in DOMAIN log :
        (IsDemangle(log[j]) /\ ValidArgs(log[j].call)) =>
            /\ (log[i].call.op = "partialDemangle"
                   /\ log[i].call.M = log[j].call.M) =>
                   (log[i].fail <=>
                        log[j].InternalStatus = demangle_invalid_mangled_name)
            /\ (log[i].call.op = "finishDemangle" /\ Fed(i) = log[j].call.M) =>
                   /\ ~log[i].null /\ ~log[j].null
                   /\ log[i].ret = log[j].ret
                   /\ log[i].wroteN /\ log[j].wroteN /\ log[i].N = log[j].N

\* finishDemangle has returned a terminated string that a demangle of the
\* same name returned too
C7_Witness ==
    \E i, j \in DOMAIN log :
        /\ log[i].call.op = "finishDemangle" /\ IsDemangle(log[j])
        /\ Fed(i) = log[j].call.M
        /\ log[i].ret = log[j].ret /\ Len(log[i].ret) > 2
        /\ NOut = Len(log[i].ret)

(***************************************************************************)
(* C8                                                                      *)
(***************************************************************************)
\* What may follow the <encoding> of a block invocation function for the
\* parse to succeed, as the code has it: _block_invoke, then digits with or
\* without a '_' before them (at least one digit after a '_'), then
\* nothing or a dot suffix
BlockInvokeTail(T) ==
    /\ startsWith(T, "_block_invoke")
    /\ LET U == dropFront(T, Len("_block_invoke"))
           D == IF startsWith(U, "_") THEN dropFront(U, 1) ELSE U
           V == StripDigits(D)
       IN /\ (startsWith(U, "_") => V # D)
          /\ (V = "" \/ startsWith(V, "."))

\* What may follow it as the claim has it: _block_invoke, or _block_invoke_N
BlockInvokeTailAsStated(T) ==
    /\ startsWith(T, "_block_invoke")
    /\ LET U == dropFront(T, Len("_block_invoke"))
       IN U = "" \/ (startsWith(U, "_") /\ Len(U) > 1 /\ StripDigits(dropFront(U, 1)) = "")

\* C8 as stated: parse() hands the input to <encoding> only for
\* _Z<encoding>[.suffix], ___Z<encoding>_block_invoke[_N] and
\* ____Z<encoding>_block_invoke[_N], and a successful parse through
\* <encoding> has one of these forms; any other input goes, whole, to <type>.
C8_AsStated ==
    \A i \in DOMAIN log :
        LET e == log[i]
            M == e.call.M
            Pre == EncodingPrefix(M, <<"_Z", "___Z", "____Z">>)
            T == dropFront(M, e.topTo)
        IN e.parsed =>
            /\ e.top = "encoding" <=> Pre # ""
            /\ (e.top = "encoding" /\ e.InternalStatus = demangle_success) =>
                   IF Pre = "_Z" THEN T = "" \/ startsWith(T, ".")
                   ELSE BlockInvokeTailAsStated(T)
            /\ e.top # "encoding" => (e.top = "type" /\ e.topFrom = 0)

\* C8 (amended): parse() hands the input to <encoding> exactly when it
\* starts with _Z, __Z, ___Z or ____Z, right after that prefix; a parse
\* through <encoding> succeeds only for _Z<encoding>[.suffix],
\* __Z<encoding>[.suffix], ___Z<encoding>_block_invoke[[_]N][.suffix] and
\* ____Z<encoding>_block_invoke[[_]N][.suffix]; every other input goes,
\* from its first byte, to <type>, and succeeds only if <type> reads all
\* of it.
C8_TopProduction ==
    \A i \in DOMAIN log :
        LET e == log[i]
            M == e.call.M
            Pre == EncodingPrefix(M, <<"_Z", "__Z", "___Z", "____Z">>)
            T == dropFront(M, e.topTo)
        IN e.parsed =>
            /\ e.top = "encoding" <=> Pre # ""
            /\ e.top = "encoding" => e.topFrom = Len(Pre)
            /\ (e.top = "encoding" /\ e.InternalStatus = demangle_success) =>
                   IF Pre \in {"_Z", "__Z"} THEN T = "" \/ startsWith(T, ".")
                   ELSE BlockInvokeTail(T)
            /\ e.top # "encoding" => (e.top = "type" /\ e.topFrom = 0)
            /\ (e.top = "type" /\ e.InternalStatus = demangle_success) =>
                   e.topTo = Len(M)

\* A name with the __Z prefix was parsed as an <encoding>, with success
C8_Witness ==
    \E i \in DOMAIN log :
        /\ IsDemangle(log[i]) /\ startsWith(log[i].call.M, "__Z")
        /\ log[i].top = "encoding" /\ log[i].topFrom = 3
        /\ log[i].InternalStatus = demangle_success

(***************************************************************************)
(* C9                                                                      *)
(***************************************************************************)
\* C9 as stated: demangling _ZNSt3vectorIiSaIiEE9push_backEOi succeeds and
\* prints std::vector<int, std::allocator<int> >::push_back(int&&).
C9_AsStated ==
    \A i \in DOMAIN log :
        (IsDemangle(log[i]) /\ log[i].call.M = "_ZNSt3vectorIiSaIiEE9push_backEOi") =>
            /\ log[i].InternalStatus = demangle_success
            /\ log[i].printed =
                   "std::vector<int, std::allocator<int> >::push_back(int&&)"

\* C9 (amended): demangling _ZNSt3vectorIiSaIiEE9push_backEOi reports
\* invalid_mangled_name with a null result (the source name 3vec ends
\* before "tor", which continues no nested name); with the length that
\* fits, _ZNSt6vectorIiSaIiEE9push_backEOi, it succeeds and prints
\* std::vector<int, std::allocator<int>>::push_back(int&&), with no space
\* between the two closing angle brackets.
C9_PushBack ==
    \A i \in DOMAIN log :
        LET e == log[i] IN
        IsDemangle(e) =>
            /\ e.call.M = "_ZNSt3vectorIiSaIiEE9push_backEOi" =>
                   /\ e.InternalStatus = demangle_invalid_mangled_name
                   /\ e.null /\ e.nulls /\ ~e.topOk
            /\ e.call.M = "_ZNSt6vectorIiSaIiEE9push_backEOi" =>
                   /\ e.InternalStatus = demangle_success
                   /\ e.printed =
                          "std::vector<int, std::allocator<int>>::push_back(int&&)"

\* The name of the claim was demangled and rejected
C9_Witness ==
    \E i \in DOMAIN log :
        /\ log[i].call.op = "__cxa_demangle"
        /\ log[i].call.M = "_ZNSt3vectorIiSaIiEE9push_backEOi"
        /\ log[i].parsed /\ log[i].null
        /\ Status = demangle_invalid_mangled_name

NodesOfKind(Arena, K) == {n \in DOMAIN Arena : Arena[n].K = K}

\* The call has handed out a printed AST
Succeeded(e) == IsDemangle(e) /\ e.InternalStatus = demangle_success

(***************************************************************************)
(* C11                                                                     *)
(***************************************************************************)
\* C11: print() of every AST a successful parse returned comes to an end,
\* with the bytes the entry point handed out; every reference whose
\* collapse detected a cycle printed nothing; a collapse never follows
\* more than twice as many references as the AST holds; and in an AST
\* without forward template references, which cannot be cyclic, no member
\* returns at its Printing test and no cycle is detected.
C11_PrintTerminates ==
    \A i \in DOMAIN log :
        LET e == log[i]
            r == parse(NewParser(e.call.M))
            o == print(r.p.Arena, r.n, OutputBuffer)
        IN Succeeded(e) =>
            /\ e.printed = o.buf
            /\ o.dropped = o.cycles
            /\ o.hops <= 2 * Cardinality(NodesOfKind(r.p.Arena, "ReferenceType"))
            /\ NodesOfKind(r.p.Arena, "ForwardTemplateReference") = {} =>
                   o.muted = 0 /\ o.cycles = 0

\* A conversion operator to T_& whose T_ is bound to that very reference
\* and to itself was printed: collapse detected the cycle, the forward
\* reference was entered again while it was being printed, and the
\* references on the cycle printed nothing
C11_Witness ==
    \E i \in DOMAIN log :
        LET r == parse(NewParser(log[i].call.M))
            o == print(r.p.Arena, r.n, OutputBuffer)
        IN /\ Succeeded(log[i])
           /\ log[i].call.M = "_ZcvRT_IS0_S_Ev"
           /\ o.cycles > 0 /\ o.muted > 0 /\ o.dropped = o.cycles
           /\ log[i].printed = "operator <&>"

(***************************************************************************)
(* C12                                                                     *)
(***************************************************************************)
RECURSIVE TableAt(_, _)
\* The substitution table after the first k events of a trace, rebuilt from
\* the pushes and the pops alone
TableAt(trace, k) ==
    IF k = 0 THEN <<>>
    ELSE LET T == TableAt(trace, k - 1) IN
         CASE trace[k].e = "push" -> Append(T, trace[k].n)
           [] trace[k].e = "pop" -> SubSeq(T, 1, Len(T) - 1)
           [] OTHER -> T

\* The lookups of a trace: the positions of its subst events
Lookups(trace) == {k \in DOMAIN trace : trace[k].e = "subst"}

\* C12: every S_ and S<seq-id>_ that returns a node returns the node the
\* table holds at the decoded index at that moment, below the size of the
\* table, and a push of that node lies earlier in the parse; a lookup at or
\* beyond the size of the table, S_ in an empty table among them, returns
\* null, also when the sequence id has wrapped.
C12_SubstitutionInTable ==
    \A i \in DOMAIN log :
        LET trace == log[i].Parser.trace IN
        \A k \in Lookups(trace) :
            LET ev == trace[k]
                T == TableAt(trace, k - 1)
            IN /\ ev.Size = Len(T)
               /\ ev.Index >= 0
               /\ ev.Index >= Len(T) => ev.n = NullPtr
               /\ ev.n # NullPtr =>
                      /\ ev.Index < Len(T)
                      /\ T[ev.Index + 1] = ev.n
                      /\ \E j \in 1..(k - 1) : trace[j].e = "push" /\ trace[j].n = ev.n

\* A parse has looked up a sequence id of thirteen digits that wraps to an
\* index inside the table and got the entry there, or one that wraps to
\* the size of the table and got null
C12_Witness ==
    \E i \in DOMAIN log :
        \E k \in Lookups(log[i].Parser.trace) :
            LET ev == log[i].Parser.trace[k] IN
            /\ Len(ev.id) = 14
            /\ \/ ev.n # NullPtr /\ ev.Index = 1 /\ ev.Size = 2
                  /\ log[i].InternalStatus = demangle_success
               \/ ev.n = NullPtr /\ ev.Index = 2 /\ ev.Size = 2

(***************************************************************************)
(* C13                                                                     *)
(***************************************************************************)
\* C13: during every parse no advance of the cursor, by one byte, by two or
\* by a decoded length, has moved First beyond Last, also when the decimal
\* length or the sequence id wrapped; when parse() returns, First is
\* between the start and Last, Last is the end of the input again after
\* every scoped override, and the bytes counted as left are those between
\* the two.
C13_CursorInside ==
    /\ Context.First <= Context.Last /\ ~Context.overrun
    /\ \A i \in DOMAIN log :
           LET e == log[i]
               P == e.Parser
           IN e.parsed =>
               /\ ~P.overrun
               /\ 0 <= P.First /\ P.First <= P.Last
               /\ P.Last = Len(e.call.M)
               /\ e.left = P.Last - P.First

\* A source name whose decimal length wraps to 1 was read to the end of the
\* input, and the parse succeeded with the cursor at Last
C13_Witness ==
    \E i \in DOMAIN log :
        /\ log[i].call.M = "_Z18446744073709551617f"
        /\ Succeeded(log[i]) /\ log[i].printed = "f"
        /\ log[i].Parser.First = log[i].Parser.Last
        /\ log[i].Parser.Last = 23

(***************************************************************************)
(* C14                                                                     *)
(***************************************************************************)
\* C14: when a print of an AST has returned, no ReferenceType and no
\* ForwardTemplateReference node has its Printing flag set; a second print
\* of the same AST into a fresh buffer, which finds the flags as the first
\* print left them, yields the same bytes as the first, and so do two
\* finishDemangle calls in a row on one partial demangler.
C14_PrintRepeatable ==
    /\ Printing = {}
    /\ \A i \in DOMAIN log :
           LET e == log[i]
               r == parse(NewParser(e.call.M))
               o == print(r.p.Arena, r.n, OutputBuffer)
               again == print(r.p.Arena, r.n, [OutputBuffer EXCEPT !.Printing = o.Printing])
           IN /\ Succeeded(e) =>
                  /\ o.Printing = {}
                  /\ again.buf = o.buf /\ again.Printing = {}
                  /\ e.printed = o.buf
              /\ (i > 1 /\ e.call.op = "finishDemangle"
                        /\ log[i - 1].call.op = "finishDemangle") =>
                     e.printed = log[i - 1].printed /\ e.ret = log[i - 1].ret

\* An AST in which a reference to a forward template reference closes a
\* cycle was printed twice by finishDemangle, with the same result
C14_Witness ==
    \E i \in DOMAIN log :
        /\ i > 2
        /\ log[i].call.op = "finishDemangle" /\ log[i - 1].call.op = "finishDemangle"
        /\ log[i - 2].call.M = "_ZcvRT_IS0_S_Ev"
        /\ log[i].printed = "operator <&>" /\ log[i - 1].printed = "operator <&>"

(***************************************************************************)
(* C15                                                                     *)
(***************************************************************************)
\* C15 as stated: no step of a parse removes or replaces an entry of Subs;
\* the table after each step extends the table before it.
C15_AsStated ==
    \A i \in DOMAIN log :
        LET trace == log[i].Parser.trace IN
        \A k \in DOMAIN trace :
            LET Before == TableAt(trace, k - 1)
                After == TableAt(trace, k)
            IN /\ Len(After) >= Len(Before)
               /\ \A j \in 1..Len(Before) : After[j] = Before[j]

\* C15: Subs changes during a parse only by an append at its end and by
\* parseNestedName, which removes the last entry of a table that is not
\* empty just before it returns a name: the entry it appended for the name
\* it returns, or, when the name consists of a substitution or of St
\* alone, the last entry that was appended before the name began.  The
\* entries below the removed one keep their index and their node.
C15_AppendOrPopLast ==
    \A i \in DOMAIN log :
        LET P == log[i].Parser
            trace == P.trace
        IN
        /\ P.Subs = TableAt(trace, Len(trace))
        /\ \A k \in DOMAIN trace :
               LET ev == trace[k]
                   Before == TableAt(trace, k - 1)
               IN /\ ev.Size = Len(Before)
                  /\ ev.e = "push" => ev.Index = Len(Before)
                  /\ ev.e = "pop" =>
                         /\ Len(Before) > 0
                         /\ ev.Index = Len(Before) - 1 /\ ev.n = Before[Len(Before)]
                         /\ k < Len(trace) /\ trace[k + 1].e = "nested"
                  /\ ev.e = "nested" =>
                         /\ k > 1 /\ trace[k - 1].e = "pop"
                         /\ \/ /\ trace[k - 1].n = ev.n
                               /\ k > 2 /\ trace[k - 2].e = "push" /\ trace[k - 2].n = ev.n
                            \/ k > 2 /\ trace[k - 2].e = "subst" /\ trace[k - 2].n = ev.n
                            \/ P.Arena[ev.n] = NameType("std")

\* A nested name that consists of the substitution S_ alone was parsed
\* when the table held two entries: the second entry was removed, the
\* type that followed took its index, and S0_ then denoted that type
C15_Witness ==
    \E i \in DOMAIN log :
        LET trace == log[i].Parser.trace IN
        /\ log[i].call.M = "_Z1fPPiNS_ES0_"
        /\ Succeeded(log[i]) /\ log[i].printed = "f(int**, int*, int*)"
        /\ \E k \in DOMAIN trace :
               /\ trace[k].e = "nested" /\ trace[k - 1].e = "pop"
               /\ trace[k - 1].n # trace[k].n
               /\ trace[k - 1].Index = 1
               /\ TableAt(trace, k - 2)[2] # TableAt(trace, Len(trace))[2]

(***************************************************************************)
(* C16                                                                     *)
(***************************************************************************)
\* The value of one digit of a sequence id: 0-9 are 0..9, A-Z are 10..35
SeqIdDigit(c) ==
    CHOOSE d \in 0..35 : SubSeq("0123456789ABCDEFGHIJKLMNOPQRSTUVWXYZ", d + 1, d + 1) = c

RECURSIVE SeqIdValue(_)
\* The base-36 value of a digit string, most significant digit first, as a
\* number that is not reduced modulo anything; values beyond SizeHuge,
\* which exceed every table size, are all given as SizeHuge
SeqIdValue(ds) ==
    IF ds = "" THEN 0
    ELSE LET v == SeqIdValue(SubSeq(ds, 1, Len(ds) - 1))
             d == SeqIdDigit(SubSeq(ds, Len(ds), Len(ds)))
         IN IF v >= SizeHuge \div 64 THEN SizeHuge ELSE v * 36 + d

\* C16: S_ resolves to index 0 and S<d1..dk>_ to index v + 1, v being the
\* base-36 value of the digits: the lookup returns the entry of the table
\* at that index when the index is below the size of the table and fails
\* otherwise; a sequence id that is not followed by _ fails.
C16_SeqIdDecoding ==
    \A i \in DOMAIN log :
        LET trace == log[i].Parser.trace IN
        \A k \in Lookups(trace) :
            LET ev == trace[k]
                id == ev.id
                terminated == id # "" /\ SubSeq(id, Len(id), Len(id)) = "_"
                digits == IF terminated THEN SubSeq(id, 1, Len(id) - 1) ELSE id
                V == IF digits = "" THEN 0
                     ELSE IF SeqIdValue(digits) = SizeHuge THEN SizeHuge
                     ELSE SeqIdValue(digits) + 1
                T == TableAt(trace, k - 1)
            IN IF ~terminated THEN ev.n = NullPtr
               ELSE IF V < Len(T) THEN ev.n = T[V + 1] /\ ev.Index = V
               ELSE ev.n = NullPtr

(***************************************************************************)
(* C17                                                                     *)
(***************************************************************************)
\* The codes of the builtin types: one letter, or D and one letter
BuiltinCodes ==
    {"v", "w", "b", "c", "a", "h", "s", "t", "i", "j", "l", "m", "x", "y", "n", "o", "z",
     "Di", "Ds", "Du", "Da", "Dc", "Dn"}

\* C17: every call of parseType that parses a builtin type, by one letter
\* or by D and a letter, returns a node and leaves the substitution table
\* as it found it; every call that parses a vendor extended builtin
\* u<source-name> appends exactly one entry, the node it returns, and
\* leaves the table alone when the source name is missing.
C17_BuiltinsNotInserted ==
    \A i \in DOMAIN log :
        LET P == log[i].Parser
            trace == P.trace
        IN
        \A k \in DOMAIN trace :
            LET ev == trace[k] IN
            ev.e = "type" =>
                /\ ev.id \in BuiltinCodes =>
                       /\ ev.n # NullPtr /\ P.Arena[ev.n].K = "NameType"
                       /\ ev.Size = ev.Index
                       /\ k > 1 => ~(trace[k - 1].e = "push" /\ trace[k - 1].n = ev.n)
                /\ (ev.id = "u" /\ ev.n = NullPtr) => ev.Size = ev.Index
                /\ (ev.id = "u" /\ ev.n # NullPtr) =>
                       /\ P.Arena[ev.n].K = "NameType"
                       /\ ev.Size = ev.Index + 1
                       /\ k > 1 /\ trace[k - 1].e = "push" /\ trace[k - 1].n = ev.n
                       /\ trace[k - 1].Index = ev.Index
                       /\ TableAt(trace, k) = Append(TableAt(trace, k - 2), ev.n)

\* A parameter list with a builtin of two letters and a vendor extended
\* builtin was parsed when the table was empty: Du left it empty, u2xy
\* made its node entry 0, and S_ then denoted that node
C17_Witness ==
    \E i \in DOMAIN log :
        LET trace == log[i].Parser.trace IN
        /\ log[i].call.M = "_Z1fDuu2xyPS_"
        /\ Succeeded(log[i]) /\ log[i].printed = "f(char8_t, xy, xy*)"
        /\ \E k \in DOMAIN trace :
               trace[k].e = "type" /\ trace[k].id = "Du" /\ trace[k].Size = 0
        /\ \E k \in DOMAIN trace :
               /\ trace[k].e = "type" /\ trace[k].id = "u"
               /\ trace[k].Index = 0 /\ trace[k].Size = 1
               /\ \E j \in Lookups(trace) : trace[j].n = trace[k].n

ParamLookups(trace) == {k \in DOMAIN trace : trace[k].e = "param"}

\* The parameter list a param event addresses, <<>> when the level has no
\* scope; 1 in TemplateParams stands for &OuterTemplateParams
AddressedScope(ev) ==
    IF ev.Level < Len(ev.TemplateParams) /\ ev.TemplateParams[ev.Level + 1] = 1
    THEN ev.OuterTemplateParams
    ELSE <<>>

C20_ForwardRefsResolved ==
    \A i \in DOMAIN log :
        LET P == log[i].Parser IN
        (log[i].parsed /\ P.root # NullPtr) =>
            /\ \A n \in NodesOfKind(P.Arena, "ForwardTemplateReference") :
                   P.Arena[n].A \in DOMAIN P.Arena
            /\ P.ForwardTemplateRefs = <<>>
(***************************************************************************)
(* C21                                                                     *)
(***************************************************************************)
\* A buffer in the middle of a pack expansion that prints element ix
OBAt(ix) == [OutputBuffer EXCEPT !.CurrentPackIndex = ix, !.CurrentPackMax = ix + 1]

\* The longest pack of an arena
LongestPack(Arena) ==
    LET Lens == {Len(Arena[n].L) : n \in NodesOfKind(Arena, "ParameterPack")} IN
    IF Lens = {} THEN 0 ELSE CHOOSE l \in Lens : \A k \in Lens : k <= l

RECURSIVE Denoted(_, _, _, _)
\* The node a pointer stands for at pack index ix, read off the arena: a
\* forward template reference stands for what it is bound to and a pack
\* for its element ix; NullPtr when the glue does not end within fuel
\* steps or a forward reference is unbound
Denoted(Arena, n, ix, fuel) ==
    IF n = NullPtr \/ fuel = 0 THEN NullPtr
    ELSE IF Arena[n].K = "ForwardTemplateReference"
    THEN Denoted(Arena, Arena[n].A, ix, fuel - 1)
    ELSE IF Arena[n].K = "ParameterPack" /\ ix < Len(Arena[n].L)
    THEN Denoted(Arena, Arena[n].L[ix + 1], ix, fuel - 1)
    ELSE n

RECURSIVE RefChain(_, _, _, _)
\* The chain of references that starts at reference n: the kinds of its
\* references from the outermost in, the pointee of the innermost, and
\* whether the chain ends, which it does within as many references as the
\* arena has nodes unless it is cyclic
RefChain(Arena, n, ix, fuel) ==
    LET d == Denoted(Arena, Arena[n].A, ix, Len(Arena) + 1) IN
    IF fuel = 0 \/ d = NullPtr THEN [kinds |-> <<>>, inner |-> NullPtr, acyclic |-> FALSE]
    ELSE IF Arena[d].K # "ReferenceType"
    THEN [kinds |-> <<Arena[n].S>>, inner |-> Arena[n].A, acyclic |-> TRUE]
    ELSE LET rest == RefChain(Arena, d, ix, fuel - 1) IN
         [rest EXCEPT !.kinds = <<Arena[n].S>> \o @]

\* The token of a chain: && when every reference of it is an rvalue
\* reference, & otherwise
RefToken(kinds) ==
    IF \A k \in DOMAIN kinds : kinds[k] = "RValue" THEN "&&" ELSE "&"

\* C21: in every AST a parse returned, printing the left part of a
\* reference that heads an acyclic chain of one or more references,
\* through forward template references and packs at any pack index,
\* writes the left part of the innermost pointee, the blank and the
\* parenthesis an array or function pointee asks for, and then one token,
\* && if and only if every reference of the chain is an rvalue reference
\* and & otherwise; and the collapse reports no cycle and drops nothing.
C21_ReferenceCollapsing ==
    \A i \in DOMAIN log :
        LET P == log[i].Parser IN
        (log[i].parsed /\ P.root # NullPtr) =>
            \A n \in NodesOfKind(P.Arena, "ReferenceType"), ix \in 0..LongestPack(P.Arena) :
                LET c == RefChain(P.Arena, n, ix, Len(P.Arena) + 1)
                    o == printLeft(P.Arena, n, OBAt(ix))
                    inner == printLeft(P.Arena, c.inner, OBAt(ix))
                    a == hasArray(P.Arena, c.inner, inner)
                    af == hasArrayOrFunction(P.Arena, c.inner, inner)
                    Sep == (IF a.v THEN " " ELSE "") \o (IF af.v THEN "(" ELSE "")
                IN c.acyclic =>
                    /\ o.buf = inner.buf \o Sep \o RefToken(c.kinds)
                    /\ o.cycles = 0 /\ o.dropped = 0

\* A pack of int& and int&& expanded under && was printed: at index 0 the
\* chain is an rvalue reference to an lvalue reference and printed int&,
\* at index 1 it is two rvalue references and printed int&&
C21_Witness ==
    \E i \in DOMAIN log :
        /\ Succeeded(log[i]) /\ log[i].call.M = "_Z1fIJRiOiEEvDpOT_"
        /\ log[i].printed = "void f<int&, int&&>(int&, int&&)"
        /\ \E n \in NodesOfKind(log[i].Parser.Arena, "ReferenceType") :
              /\ RefChain(log[i].Parser.Arena, n, 0, 9).kinds = <<"RValue", "LValue">>
              /\ RefChain(log[i].Parser.Arena, n, 1, 9).kinds = <<"RValue", "RValue">>
              /\ printLeft(log[i].Parser.Arena, n, OBAt(0)).buf = "int&"
              /\ printLeft(log[i].Parser.Arena, n, OBAt(1)).buf = "int&&"

(***************************************************************************)
(* C22                                                                     *)
(***************************************************************************)
\* The nodes a node points to
Kids(Arena, n) ==
    ({Arena[n].A, Arena[n].B, Arena[n].C}
        \cup {Arena[n].L[k] : k \in DOMAIN Arena[n].L}
        \cup {Arena[n].L2[k] : k \in DOMAIN Arena[n].L2}) \ {NullPtr}

RECURSIVE Under(_, _, _)
\* The nodes reached from a set of nodes without going below a pack or a
\* nested pack expansion
Under(Arena, frontier, seen) ==
    LET open == {m \in frontier :
                    Arena[m].K \notin {"ParameterPack", "ParameterPackExpansion"}}
        next == UNION {Kids(Arena, m) : m \in open} \ (seen \cup frontier)
    IN IF next = {} THEN seen \cup frontier
       ELSE Under(Arena, next, seen \cup frontier)

\* The packs the child of an expansion refers to
PacksUnder(Arena, child) ==
    {m \in Under(Arena, {child}, {}) : Arena[m].K = "ParameterPack"}

\* The child of an expansion has no expansion of its own below it
NoExpansionUnder(Arena, child) ==
    \A m \in Under(Arena, {child}, {}) : Arena[m].K # "ParameterPackExpansion"

RECURSIVE Copies(_, _, _, _)
\* child printed with pack index i, i + 1, .., n - 1, the copies separated
\* by a comma and a blank
Copies(Arena, child, i, n) ==
    LET one == print(Arena, child, [OutputBuffer EXCEPT !.CurrentPackIndex = i,
                                                        !.CurrentPackMax = n]).buf
    IN IF i + 1 >= n THEN one ELSE one \o ", " \o Copies(Arena, child, i + 1, n)

\* C22: in every AST a parse returned, a pack expansion whose child
\* refers to one parameter pack of n >= 1 elements prints the child n
\* times, with the pack index 0, 1, .., n - 1 in that order and a comma
\* and a blank between the copies; and one whose child refers to no pack
\* and holds no expansion prints the child once, followed by three dots.
C22_PackExpansion ==
    \A i \in DOMAIN log :
        LET P == log[i].Parser IN
        (log[i].parsed /\ P.root # NullPtr) =>
            \A n \in NodesOfKind(P.Arena, "ParameterPackExpansion") :
                LET child == P.Arena[n].A
                    packs == PacksUnder(P.Arena, child)
                    o == printLeft(P.Arena, n, OutputBuffer)
                IN /\ (NoExpansionUnder(P.Arena, child) /\ packs = {}) =>
                        o.buf = print(P.Arena, child, OutputBuffer).buf \o "..."
                   /\ \A q \in packs :
                        (packs = {q} /\ Len(P.Arena[q].L) >= 1) =>
                            o.buf = Copies(P.Arena, child, 0, Len(P.Arena[q].L))

\* The expansion of T_* over the pack of int and char was printed as
\* int*, char*
C22_Witness ==
    \E i \in DOMAIN log :
        /\ Succeeded(log[i]) /\ log[i].call.M = "_Z1fIJicEEvDpPT_"
        /\ log[i].printed = "void f<int, char>(int*, char*)"
        /\ \E n \in NodesOfKind(log[i].Parser.Arena, "ParameterPackExpansion") :
              /\ Cardinality(PacksUnder(log[i].Parser.Arena, log[i].Parser.Arena[n].A)) = 1
              /\ printLeft(log[i].Parser.Arena, n, OutputBuffer).buf = "int*, char*"


(***************************************************************************)
(* C23                                                                     *)
(***************************************************************************)
RECURSIVE Pieces(_, _, _, _)
\* What each element of a list prints by itself when the list is printed
\* in order from buffer OB: the printing state passes from one element to
\* the next, the bytes do not
Pieces(Arena, Elements, k, OB) ==
    IF k > Len(Elements) THEN <<>>
    ELSE LET o == printAsOperand(Arena, Elements[k], [OB EXCEPT !.buf = ""], "Comma", FALSE)
         IN <<o.buf>> \o Pieces(Arena, Elements, k + 1, o)

RECURSIVE JoinNonEmpty(_, _, _)
\* The non-empty strings of a sequence from the k-th on, a comma and a
\* blank between each two; first tells that none has been written yet
JoinNonEmpty(strs, k, first) ==
    IF k > Len(strs) THEN ""
    ELSE IF strs[k] = "" THEN JoinNonEmpty(strs, k + 1, first)
    ELSE (IF first THEN "" ELSE ", ") \o strs[k] \o JoinNonEmpty(strs, k + 1, FALSE)

\* C23: in every AST a parse returned, an expansion whose child refers to
\* one pack, of zero elements, leaves the buffer as long as it found it;
\* and printWithComma over the list of any node writes the elements that
\* print something, in order, with one comma and one blank between each
\* two and nothing before the first or after the last, whichever elements
\* print nothing.
C23_EmptyPacksLeaveNoTrace ==
    \A i \in DOMAIN log :
        LET P == log[i].Parser IN
        (log[i].parsed /\ P.root # NullPtr) =>
            /\ \A n \in NodesOfKind(P.Arena, "ParameterPackExpansion") :
                 LET packs == PacksUnder(P.Arena, P.Arena[n].A) IN
                 \A q \in packs :
                     (packs = {q} /\ P.Arena[q].L = <<>>) =>
                         printLeft(P.Arena, n, OBAppend(OutputBuffer, "f(")).buf = "f("
            /\ \A n \in DOMAIN P.Arena :
                 printWithComma(P.Arena, P.Arena[n].L, OutputBuffer).buf =
                     JoinNonEmpty(Pieces(P.Arena, P.Arena[n].L, 1, OutputBuffer), 1, TRUE)

\* The list of a function's parameters was printed and gave the pieces
\* Strs, and the whole name was printed as Printed
PrintedParams(M, Printed, Strs) ==
    \E i \in DOMAIN log :
        /\ Succeeded(log[i]) /\ log[i].call.M = M /\ log[i].printed = Printed
        /\ \E n \in NodesOfKind(log[i].Parser.Arena, "FunctionEncoding") :
              Pieces(log[i].Parser.Arena, log[i].Parser.Arena[n].L, 1, OutputBuffer) = Strs

\* The parameters T_, T0_..., T1_ with an empty pack between char and int
\* were printed as char, int: the expansion in the middle printed nothing
\* and the comma written before it was taken back
C23_Witness ==
    PrintedParams("_Z1fIcJEiEvT_DpT0_T1_", "void f<char, int>(char, int)",
                  <<"char", "", "int">>)

(***************************************************************************)
(* C24                                                                     *)
(***************************************************************************)
\* The precedence levels from the one that binds tightest to the weakest
Weaker(a, b) ==
    \E i, j \in DOMAIN PrecNames : PrecNames[i] = a /\ PrecNames[j] = b /\ i > j

\* What an operand that prints Bare by itself must print as in a context
\* of precedence P: in parentheses when it is weaker than P, or, where the
\* position is not strict, as weak as P
Wrapped(Bare, OwnPrec, P, Strict) ==
    IF Weaker(OwnPrec, P) \/ (~Strict /\ OwnPrec = P) THEN "(" \o Bare \o ")" ELSE Bare

AsOperand(Arena, n, P, Strict) ==
    Wrapped(print(Arena, n, OutputBuffer).buf, Arena[n].Prec, P, Strict)

\* The kinds of node the expression productions make
ExprKinds ==
    {"BinaryExpr", "PrefixExpr", "PostfixExpr", "ConditionalExpr", "ConversionExpr",
     "IntegerLiteral", "BoolExpr"}

\* C24: in every AST a parse returned, printAsOperand of any expression
\* node, in any context and position, parenthesises it exactly when its
\* precedence is weaker than the context's in a strict position and
\* weaker or equal in a non-strict one; and a BinaryExpr prints its left
\* operand by the strict test and its right operand by the
\* weaker-or-equal test against its own precedence, unless its precedence
\* is that of assignment: then the left operand is printed by the
\* weaker-or-equal test against the logical-or level and the right operand
\* by the strict test against the assignment level.
C24_OperandParens ==
    \A i \in DOMAIN log :
        LET P == log[i].Parser IN
        (log[i].parsed /\ P.root # NullPtr) =>
            /\ \A n \in {m \in DOMAIN P.Arena : P.Arena[m].K \in ExprKinds} :
                 LET Bare == print(P.Arena, n, OutputBuffer).buf IN
                 \A k \in DOMAIN PrecNames, Strict \in BOOLEAN :
                     printAsOperand(P.Arena, n, OutputBuffer, PrecNames[k], Strict).buf
                         = Wrapped(Bare, P.Arena[n].Prec, PrecNames[k], Strict)
            /\ \A n \in NodesOfKind(P.Arena, "BinaryExpr") :
                 LET N == P.Arena[n]
                     Sep == (IF N.S = "," THEN "" ELSE " ") \o N.S \o " "
                 IN printLeft(P.Arena, n, OutputBuffer).buf =
                        IF N.Prec = "Assign"
                        THEN AsOperand(P.Arena, N.A, "OrIf", FALSE) \o Sep
                                 \o AsOperand(P.Arena, N.B, "Assign", TRUE)
                        ELSE AsOperand(P.Arena, N.A, N.Prec, TRUE) \o Sep
                                 \o AsOperand(P.Arena, N.B, N.Prec, FALSE)

\* (1 * (2 * 3)) = (4 = 5) was printed as 1 * (2 * 3) = 4 = 5: a product on
\* the right of a product is parenthesised and an assignment on the right
\* of an assignment is not
C24_Witness ==
    \E i \in DOMAIN log :
        /\ Succeeded(log[i]) /\ log[i].call.M = "_Z1fIXaSmlLi1EmlLi2ELi3EaSLi4ELi5EEEvv"
        /\ log[i].printed = "void f<1 * (2 * 3) = 4 = 5>"
        /\ \E n, m \in NodesOfKind(log[i].Parser.Arena, "BinaryExpr") :
              LET A == log[i].Parser.Arena IN
              /\ A[n].Prec = "Assign" /\ A[A[n].B].Prec = "Assign"
              /\ A[m].Prec = "Multiplicative" /\ A[A[m].B].Prec = "Multiplicative"


(***************************************************************************)
(* C25                                                                     *)
(***************************************************************************)
\* The successful returns of parseTemplateArgs in a trace
ArgsReturns(trace) == {k \in DOMAIN trace : trace[k].e = "targs"}

\* C25: at every successful return of parseTemplateArgs called with
\* TagTemplates, the template-parameter table is one scope, the outer one,
\* and that scope has one entry for each argument of the returned
\* TemplateArgs, in order: for an argument pack a ParameterPack over the
\* elements of the pack, for any other argument the argument node itself.
C25_TemplateArgsTable ==
    \A i \in DOMAIN log :
        LET P == log[i].Parser IN
        log[i].parsed =>
            \A k \in ArgsReturns(P.trace) :
                LET ev == P.trace[k]
                    Args == P.Arena[ev.n].L
                    Outer == ev.OuterTemplateParams
                IN ev.TagTemplates =>
                    /\ ev.TemplateParams = <<1>>
                    /\ Len(Outer) = Len(Args)
                    /\ \A a \in DOMAIN Args :
                         IF P.Arena[Args[a]].K = "TemplateArgumentPack"
                         THEN /\ P.Arena[Outer[a]].K = "ParameterPack"
                              /\ P.Arena[Outer[a]].L = P.Arena[Args[a]].L
                         ELSE Outer[a] = Args[a]

\* The arguments <int, J long, unsigned long E> of f in g<char>::f were
\* parsed: the table holds int and one ParameterPack of two elements, and
\* nothing of the arguments of g
C25_Witness ==
    \E i \in DOMAIN log :
        LET P == log[i].Parser IN
        /\ Succeeded(log[i]) /\ log[i].call.M = "_ZN1gIcE1fIiJlmEEEvT_"
        /\ log[i].printed = "void g<char>::f<int, long, unsigned long>(int)"
        /\ \E k \in ArgsReturns(P.trace) :
              /\ P.trace[k].TagTemplates
              /\ Len(P.trace[k].OuterTemplateParams) = 2
              /\ P.Arena[P.trace[k].OuterTemplateParams[1]].S = "int"
              /\ P.Arena[P.trace[k].OuterTemplateParams[2]].K = "ParameterPack"
              /\ Len(P.Arena[P.trace[k].OuterTemplateParams[2]].L) = 2


(***************************************************************************)
(* C26                                                                     *)
(***************************************************************************)
\* The returns of parseOperatorName (opname) and of the C-cast case of
\* parseExpr (ccast) in a trace
FlagReturns(trace) == {k \in DOMAIN trace : trace[k].e \in {"opname", "ccast"}}

\* C26: at every return of parseOperatorName and of the C-cast case of
\* parseExpr, with a node or with null, TryToParseTemplateArgs and
\* PermitForwardTemplateReferences have the values they had when the call
\* was entered.
C26_FlagsScoped ==
    \A i \in DOMAIN log :
        LET P == log[i].Parser IN
        log[i].parsed =>
            \A k \in FlagReturns(P.trace) :
                /\ P.trace[k].Try = P.trace[k].Try0
                /\ P.trace[k].Permit = P.trace[k].Permit0

\* The conversion operator of f::operator T_<int>() was parsed inside a
\* nested name: its type T_ was decoded with forward references permitted
\* and became a ForwardTemplateReference, and parseOperatorName returned
\* the operator with forward references forbidden again and template
\* arguments tried again
C26_Witness ==
    \E i \in DOMAIN log :
        LET P == log[i].Parser IN
        /\ log[i].parsed /\ log[i].call.M = "_ZN1fcvT_IiEEv"
        /\ \E k \in FlagReturns(P.trace), j \in ParamLookups(P.trace) :
              /\ j < k
              /\ P.trace[j].Permit /\ ~P.trace[k].Permit /\ P.trace[k].Try
              /\ P.trace[k].e = "opname" /\ P.trace[k].n # NullPtr
              /\ P.Arena[P.trace[k].n].K = "ConversionOperatorType"
              /\ P.Arena[P.trace[j].n].K = "ForwardTemplateReference"


(***************************************************************************)
(* C27                                                                     *)
(***************************************************************************)
\* The bytes the encodings of the operator table are written with, and two
\* bytes no encoding has
OpAlphabet ==
    {CharAt(Ops[j].Enc, k) : j \in 1..NumOps, k \in 1..2} \cup {"E", "1"}

\* What is left of a mangled name when parseOperatorEncoding is called:
\* nothing, one byte, any two bytes, and every encoding with one byte more
OpInputs ==
    {""} \cup OpAlphabet \cup {a \o b : a, b \in OpAlphabet}
         \cup {Ops[j].Enc \o c : j \in 1..NumOps, c \in {"E", "_", "v"}}

\* A parser is made for one input; todo holds the input and log the result
InitOps ==
    /\ todo \in OpInputs
    /\ log = <<>>
    /\ Context = NewParser(todo)
    /\ RootNode = NullPtr
    /\ Printing = {}
    /\ Status = 1
    /\ NOut = 0
    /\ Alloc = BumpPointerAllocator

Call_parseOperatorEncoding ==
    /\ log = <<>>
    /\ log' = <<parseOperatorEncoding(Context)>>
    /\ Context' = log'[1].p
    /\ UNCHANGED <<todo, RootNode, Printing, Status, NOut, Alloc>>

NextOps == Call_parseOperatorEncoding

SpecOps == InitOps /\ [][NextOps]_vars

\* The entries of the table whose encoding is the two bytes at the front
\* of a string
Encoded(M) == {j \in 1..NumOps : Len(M) >= 2 /\ Ops[j].Enc = SubSeq(M, 1, 2)}

\* C27: the encodings of the operator table are in strictly ascending
\* order, first by the first byte and then by the second; and each call
\* of parseOperatorEncoding returns: with the entry whose encoding is the
\* next two bytes, having consumed exactly those two bytes, when there are
\* two bytes left and some entry has them as its encoding, and otherwise
\* with null, having consumed nothing.
C27_OperatorLookup ==
    /\ \A j \in 1..(NumOps - 1) :
         \/ Ord(CharAt(Ops[j].Enc, 1)) < Ord(CharAt(Ops[j + 1].Enc, 1))
         \/ /\ CharAt(Ops[j].Enc, 1) = CharAt(Ops[j + 1].Enc, 1)
            /\ Ord(CharAt(Ops[j].Enc, 2)) < Ord(CharAt(Ops[j + 1].Enc, 2))
    /\ log # <<>> =>
         IF Encoded(todo) # {}
         THEN /\ log[1].op \in Encoded(todo)
              /\ log[1].p.First = 2
              /\ ~log[1].p.overrun
         ELSE /\ log[1].op = 0
              /\ log[1].p.First = 0

\* dv followed by E was looked up and gave the entry of operator/ with
\* the two bytes consumed and the E left
C27_Witness ==
    /\ log # <<>> /\ todo = "dvE"
    /\ log[1].op # 0 /\ Ops[log[1].op].Name = "operator/"
    /\ log[1].p.First = 2 /\ Rest(log[1].p) = "E"



(***************************************************************************)
(* C28                                                                     *)
(***************************************************************************)
\* The calls made to one allocator
MaxCalls == 4

\* The sizes asked for: small ones, those that fill or overfill a block,
\* the largest that is not massive, massive ones, and 2^32
Requests ==
    {SizeT(1), SizeT(16), SizeT(17), SizeT(2040), SizeT(4064), SizeT(4080),
     SizeT(4081), SizeT(70000), <<0, 0, 1, 0>>}

\* An allocator is constructed; the partial demangler is left alone
InitAlloc ==
    /\ todo = <<>>
    /\ log = <<>>
    /\ Context = NewParser("")
    /\ RootNode = NullPtr
    /\ Printing = {}
    /\ Status = 1
    /\ NOut = 0
    /\ Alloc = BumpPointerAllocator

Call_allocate ==
    /\ Alloc.calls < MaxCalls
    /\ \E N \in Requests :
          Alloc' = [allocate(Alloc, N) EXCEPT !.calls = @ + 1, !.last = "allocate"]
    /\ UNCHANGED <<todo, log, Context, RootNode, Printing, Status, NOut>>

Call_reset ==
    /\ Alloc.calls < MaxCalls
    /\ Alloc' = [BumpPointerAllocator_reset(Alloc) EXCEPT !.calls = @ + 1,
                                                          !.last = "reset"]
    /\ UNCHANGED <<todo, log, Context, RootNode, Printing, Status, NOut>>

NextAlloc ==
    \/ Call_allocate
    \/ Call_reset

SpecAlloc == InitAlloc /\ [][NextAlloc]_vars

\* C28: right after reset(), whatever calls of allocate and reset came
\* before, every block malloc ever returned has been freed exactly once,
\* InitialBuffer has never been freed, and the block list is InitialBuffer
\* alone with no byte in use.
C28_ArenaReset ==
    Alloc.last = "reset" =>
        /\ \A k \in DOMAIN Alloc.Heap : Alloc.Heap[k].frees = 1
        /\ Alloc.InitialFrees = 0
        /\ Len(Alloc.BlockList) = 1
        /\ Alloc.BlockList[1].id = 0
        /\ SizeVal(Alloc.BlockList[1].Current) = 0

\* A reset after a block was opened by grow and another by allocateMassive
C28_Witness ==
    /\ Alloc.last = "reset"
    /\ \E j, k \in DOMAIN Alloc.Heap :
          /\ Alloc.Heap[j].kind = "grow"
          /\ Alloc.Heap[k].kind = "massive"
          /\ Alloc.Heap[j].frees = 1
          /\ Alloc.Heap[k].frees = 1

(***************************************************************************)
(* C29                                                                     *)
(***************************************************************************)
\* The least multiple of 16 that is not below N, for N below 2^64 - 16
RoundedUp16(N) ==
    IF N[1] % 16 = 0 THEN N
    ELSE SizeAdd(<<N[1] - (N[1] % 16), N[2], N[3], N[4]>>, SizeT(16))

\* The bytes malloc gave a block, or InitialBuffer has
BlockBytes(id) == IF id = 0 THEN SizeT(AllocSize) ELSE Alloc.Heap[id].size

\* C29: every region handed out since the last reset reserves the bytes
\* asked for rounded up to the next multiple of 16, which are at least the
\* bytes asked for, lies behind the BlockMeta of its block and inside the
\* block, and overlaps no other region; the head block's Current does not
\* exceed UsableAllocSize.
C29_AllocationSize ==
    /\ \A k \in DOMAIN Alloc.Handed :
          LET r == Alloc.Handed[k]
          IN /\ r.len = RoundedUp16(r.N)
             /\ SizeLeq(r.N, r.len)
             /\ SizeLeq(SizeAdd(SizeAdd(r.from, r.len), SizeT(BlockMetaSize)),
                        BlockBytes(r.id))
             /\ \A j \in 1..(k - 1) :
                   LET q == Alloc.Handed[j]
                   IN q.id = r.id => SizeLeq(SizeAdd(q.from, q.len), r.from)
    /\ SizeLeq(Head(Alloc.BlockList).Current, SizeT(UsableAllocSize))

\* The same for the requests below 2^32 - 15, which the mask of allocate
\* leaves whole
C29_BelowMask ==
    (\A k \in DOMAIN Alloc.Handed :
        Alloc.Handed[k].N[3] = 0 /\ Alloc.Handed[k].N[4] = 0) => C29_AllocationSize

\* A region of no bytes was handed out for 2^32 bytes asked
C29_Truncated ==
    \E k \in DOMAIN Alloc.Handed :
        /\ Alloc.Handed[k].N = <<0, 0, 1, 0>>
        /\ SizeVal(Alloc.Handed[k].len) = 0


(***************************************************************************)
(* C30                                                                     *)
(***************************************************************************)
\* What the assignment and compound-assignment operators print as
AssignmentSymbols ==
    {"=", "+=", "-=", "*=", "/=", "%=", "&=", "|=", "^=", "<<=", ">>="}

\* C30: in every AST a parse returned, a BinaryExpr for *, / or % carries
\* the Multiplicative precedence, the Assign precedence is carried only by
\* a BinaryExpr for an assignment or compound assignment, and a division
\* prints its operands as a multiplication does: the left one in
\* parentheses when it is weaker than Multiplicative, the right one when
\* it is weaker or as weak.
C30_DivisionIsMultiplicative ==
    \A i \in DOMAIN log :
        LET P == log[i].Parser IN
        (log[i].parsed /\ P.root # NullPtr) =>
            \A n \in NodesOfKind(P.Arena, "BinaryExpr") :
                LET N == P.Arena[n] IN
                /\ N.S \in {"*", "/", "%"} => N.Prec = "Multiplicative"
                /\ N.Prec = "Assign" => N.S \in AssignmentSymbols
                /\ N.S = "/" =>
                      printLeft(P.Arena, n, OutputBuffer).buf =
                          AsOperand(P.Arena, N.A, "Multiplicative", TRUE) \o " / "
                              \o AsOperand(P.Arena, N.B, "Multiplicative", FALSE)

\* The same with the division left out: every other binary operator of
\* the inputs carries the tag of its level
C30_OtherThanDivision ==
    \A i \in DOMAIN log :
        LET P == log[i].Parser IN
        (log[i].parsed /\ P.root # NullPtr) =>
            \A n \in NodesOfKind(P.Arena, "BinaryExpr") :
                LET N == P.Arena[n] IN
                /\ N.S \in {"*", "%"} => N.Prec = "Multiplicative"
                /\ (N.Prec = "Assign" /\ N.S # "/") => N.S \in AssignmentSymbols

\* (1 + 2) / 3 was printed as 1 + 2 / 3
C30_DivisionOfSum ==
    \E i \in DOMAIN log :
        /\ Succeeded(log[i]) /\ log[i].call.M = "_Z1fIXdvplLi1ELi2ELi3EEEvv"
        /\ log[i].printed = "void f<1 + 2 / 3>"

=============================================================================
